---- MODULE Spec2Model ----
(***************************************************************************)
(* themectl: the incremental-application subsystem.                        *)
(*                                                                         *)
(* The model covers the freshness cache (src/src/incremental.rs), the file *)
(* applier and its parallel orchestrator (src/src/file_manager.rs), the    *)
(* batch export (src/src/cli.rs, src/src/generators/mod.rs), the parsed    *)
(* theme cache (src/src/cache.rs), the restore and the cleaning of backups *)
(* and the renaming of a theme (src/src/cli.rs), and the library functions *)
(* on colours, themes and theme names (src/src/utils.rs,                   *)
(* src/src/parser.rs, src/src/theme.rs).                                   *)
(*                                                                         *)
(* Disk state is explicit: target files, directories, backup files, the    *)
(* persisted freshness table (metadata.toml) and the wall clock in whole   *)
(* seconds.  One rayon worker per (application, path) pair is a process    *)
(* with a program counter; every blocking filesystem call is one step.     *)
(***************************************************************************)
EXTENDS Integers, Sequences, FiniteSets, TLC

VARIABLES
    files,      \* path -> content of the file, or NoFile
    dirs,       \* the directories that exist
    backups,    \* backup path -> content of the backup file, or NoFile
    table,      \* metadata.toml as parsed: path -> ConfigMetadata (partial)
    tableOK,    \* FALSE when metadata.toml does not parse as a table
    now,        \* SystemTime::now() in seconds since the epoch
    phase,      \* "idle" | "running" | "done": one CLI invocation of apply
    theme,      \* the theme of the running batch
    dryRun,     \* FileManager.dry_run
    mode,       \* deployment method of the running batch: "standard" | "nix"
    incr,       \* FileManager.incremental is Some
    configs,    \* detect_config_files(): the sequence of detected applications
    pc,         \* application -> position of its worker in apply_to_file
    content,    \* application -> the content its worker generated
    loaded,     \* application -> the table its update_metadata has loaded
    result,     \* application -> "none" | "ok" | "err": apply_to_file's result
    ret,        \* "none" | "ok" | "err": what apply_theme returned
    eff,        \* history: application -> the disk effects of its worker
    attempts,   \* history: application -> calls of apply_to_file in this batch
    seen,       \* history: application -> what its worker observed
    snap,       \* history: the disk as it was when the batch began
    last,       \* history: application -> theme of its last undisturbed real write
    batches,    \* history: the number of batches begun
    edits,      \* history: the number of disturbances by the environment
    prev,       \* history: the last completed batch, while nothing disturbed it
    su,         \* the last direct call of should_update and its result
    xformat,    \* export_all_themes: the format argument
    xbad,       \* export_all_themes: the theme files that do not parse
    xfail,      \* export_all_themes: the <<theme file, format>> pairs that do not generate
    xpc,        \* export_all_themes: theme file -> position of its unit of work
    xgen,       \* export_all_themes: <<theme file, format>> -> outcome of the pair
    xtries,     \* history: <<theme file, format>> -> calls of generate()
    xout,       \* export_all_themes: the exported files written so far
    xresults,   \* export_all_themes: theme file -> Result of its unit of work
    xcount,     \* export_all_themes: <<success_count, error_count>>, or <<>>
    report,     \* apply_theme: the applications in the order their results are printed
    fin,        \* history: the applications in the order their workers finished
    rs,         \* the last call of restore_backup and what it found
    cfile,      \* theme file -> its content and modification time
    cache,      \* ThemeCache.cache: theme file -> (Theme, SystemTime), or NoEntry
    cpc,        \* thread -> position of its call of get_or_parse
    cpath,      \* thread -> the path argument of its call
    cmt,        \* thread -> file_mtime, as its call read it
    cent,       \* thread -> the entry its call got from the map
    cth,        \* thread -> what parse_theme_file gave its call
    cret,       \* thread -> what its call returned
    cheld,      \* thread -> its call holds a dashmap Ref (a shard read lock)
    chit,       \* history: thread -> its call returned the cached theme
    cchg,       \* history: thread -> the file changed during its call
    cgen,       \* history: theme file -> "uncalled" | "called" | "changed" since
    ccalls,     \* history: the number of calls of get_or_parse begun
    call,       \* the last direct call of a library function: arguments and result
    tdir        \* the themes directory: theme name -> the theme in <name>.toml

diskVars  == <<files, dirs, backups, table, tableOK, now>>
batchVars == <<phase, theme, dryRun, mode, incr, configs, pc, content, loaded,
               result, ret, report>>
histVars  == <<eff, attempts, seen, snap, last, prev, batches, edits, fin>>
exportVars == <<xformat, xbad, xfail, xpc, xgen, xtries, xout, xresults, xcount>>
cacheVars == <<cfile, cache, cpc, cpath, cmt, cent, cth, cret, cheld, chit, cchg,
               cgen, ccalls>>
pureVars  == <<call, tdir>>
vars == <<diskVars, batchVars, histVars, su, exportVars, rs, cacheVars, pureVars>>

----------------------------------------------------------------------------
(* Bounds of the model.                                                    *)

\* The clock runs from 0 to MaxTime seconds.
MaxTime == 1

\* A behaviour holds at most MaxBatches invocations of apply.
MaxBatches == 2

\* The environment disturbs the disk at most MaxEdits times.
MaxEdits == 1

\* Modification times of a theme file run from 0 to MaxMTime.
MaxMTime == 1

\* A behaviour holds at most MaxCalls calls of get_or_parse.
MaxCalls == 3

----------------------------------------------------------------------------
(* Values.                                                                 *)

\* The applications of detect_standard_files / detect_nix_files (a prefix of
\* the list of 14).
AppList == <<"kitty", "waybar">>

Apps == {AppList[i] : i \in 1..Len(AppList)}

\* Two themes of the theme store, by name.
ThemeNames == {"A", "B"}

NoFile == "<no file>"

\* What a failed fs::copy or fs::write may leave behind.
Partial == "<partial>"

\* What another program wrote into a target file.
Edited == "<edited by hand>"

\* A file whose bytes are not UTF-8: fs::read_to_string fails on it.
Binary == "<not utf-8>"

GenError == "<generation error>"

\* The conventional per-application config path, as directory, file stem and
\* extension (Path::with_extension works on the last two).
StdPath(app) ==
    CASE app = "kitty"  -> [dir |-> "kitty",  stem |-> "kitty", ext |-> "conf"]
      [] app = "waybar" -> [dir |-> "waybar", stem |-> "style", ext |-> "css"]

\* nix_path.join(format!("{}.nix", app))
NixPath(app) == [dir |-> "nix-modules", stem |-> app, ext |-> "nix"]

StdPaths == {StdPath(a) : a \in Apps}
NixPaths == {NixPath(a) : a \in Apps}
Paths == StdPaths \cup NixPaths
Dirs == {p.dir : p \in Paths}

\* path.with_extension(format!("{}.bak", timestamp)): the extension of the
\* original is replaced, so the backup is named by directory, stem and second.
BackupPath(p, ts) == [dir |-> p.dir, stem |-> p.stem, ts |-> ts]

BackupPaths == {BackupPath(p, ts) : p \in StdPaths, ts \in 0..MaxTime}

\* The backup files that exist, all or those made from path p.
BackupsIn(bk) == {b \in DOMAIN bk : bk[b] # NoFile}
BackupsOf(bk, p) == {b \in BackupsIn(bk) : b.dir = p.dir /\ b.stem = p.stem}

----------------------------------------------------------------------------
(* Pure functions.                                                         *)

\* SHA-256 of the content as lowercase hex: injective on the contents of the
\* model, and never equal to the content itself.
compute_hash(c) == "sha256(" \o c \o ")"

\* The generator collaborator: deterministic in (theme, application); one
\* pair of the model fails with a generation error.
GenFails(t, app) == t = "B" /\ app = "waybar"

generate(t, app) ==
    IF GenFails(t, app) THEN GenError ELSE app \o " config of theme " \o t

generate_home_manager_module(t, app) ==
    IF GenFails(t, app) THEN GenError ELSE app \o " module of theme " \o t

\* The mutant of the insert that starts from an empty table.
Upsert_alone(tbl, p, themeName, c, ts) ==
    p :> [theme |-> themeName, hash |-> compute_hash(c), last_updated |-> ts]

\* The mutant of should_update that trusts the table and never looks at the
\* file on disk.
should_update_no_disk_check(tbl, ok, fs, p, themeName, c) ==
    IF ~ok THEN "err"
    ELSE IF p \in DOMAIN tbl
            /\ tbl[p].theme = themeName
            /\ tbl[p].hash = compute_hash(c)
         THEN "false"
         ELSE "true"

\* The mutant of should_update that never skips.
should_update_always(tbl, ok, fs, p, themeName, c) ==
    IF ~ok THEN "err" ELSE "true"

\* The mutant of should_update that ignores the theme name.
should_update_any_theme(tbl, ok, fs, p, themeName, c) ==
    IF ~ok THEN "err"
    ELSE IF p \in DOMAIN tbl /\ tbl[p].hash = compute_hash(c)
            /\ fs[p] # NoFile /\ fs[p] # Binary
            /\ compute_hash(fs[p]) = compute_hash(c)
         THEN "false"
         ELSE "true"

\* The mutant of should_update whose look at the disk stops at the existence
\* of the file.
should_update_exists_only(tbl, ok, fs, p, themeName, c) ==
    IF ~ok THEN "err"
    ELSE IF p \in DOMAIN tbl
            /\ tbl[p].theme = themeName
            /\ tbl[p].hash = compute_hash(c)
            /\ fs[p] # NoFile
         THEN "false"
         ELSE "true"

\* IncrementalManager::should_update: Ok(false), Ok(true) or Err, from the
\* table on disk (ok: it parses), the filesystem, and the arguments.
should_update(tbl, ok, fs, p, themeName, c) ==
    LET content_hash == compute_hash(c) IN
    IF ~ok THEN "err"                                  \* load_metadata()?
    ELSE IF p \in DOMAIN tbl
         THEN IF tbl[p].theme = themeName /\ tbl[p].hash = content_hash
              THEN IF fs[p] # NoFile                   \* config_path.exists()
                   THEN IF fs[p] = Binary THEN "err"   \* read_to_string()?
                        ELSE IF compute_hash(fs[p]) = content_hash
                             THEN "false"
                             ELSE "true"
                   ELSE "true"
              ELSE "true"
         ELSE "true"

\* The table after metadata.insert(path, ConfigMetadata {..}).
Upsert(tbl, p, themeName, c, ts) ==
    (p :> [theme |-> themeName, hash |-> compute_hash(c), last_updated |-> ts])
        @@ tbl

----------------------------------------------------------------------------
(* FileManager: detection of the targets.                                  *)

Exists(fs, p) == fs[p] # NoFile

\* detect_standard_files: discovery and the fallback name the same
\* conventional path; it is listed when it or its parent directory exists, and
\* always outside dry-run.
detect_standard_files(dry, fs, ds) ==
    SelectSeq(AppList,
              LAMBDA a : Exists(fs, StdPath(a)) \/ StdPath(a).dir \in ds \/ ~dry)

\* detect_nix_files: every application, whether its module exists or not.
detect_nix_files == AppList

detect_config_files(m, dry, fs, ds) ==
    IF m = "nix" THEN detect_nix_files ELSE detect_standard_files(dry, fs, ds)

\* The file apply_to_file writes for an application.
Target(m, app) == IF m = "nix" THEN NixPath(app) ELSE StdPath(app)

InSeq(s, x) == \E i \in 1..Len(s) : s[i] = x

----------------------------------------------------------------------------
(* FileManager: the steps of one worker.                                   *)

NoTable == [p \in {} |-> 0]

\* The mutant of the dry-run test that lets a dry run go on to the disk.
dry_run_ignored(dry) == FALSE

\* if self.dry_run { println!(..); return Ok(()) }
dry_run_returns(dry) == dry

\* The mutant of backup_file that copies nothing.
backup_file_skipped(bk, fs, p, ts) == bk

\* backup_file: fs::copy(path, path.with_extension("<now>.bak")), which
\* creates the backup or replaces a file of that name.
backup_file(bk, fs, p, ts) == [bk EXCEPT ![BackupPath(p, ts)] = fs[p]]

\* The mutant of the skip test that skips unless told to update.
skips_unless_true(r) == r # "true"

\* if let Ok(false) = incremental.should_update(..): only Ok(false) skips.
skips(r) == r = "false"

\* The mutant of the batch that gives up on the applications still waiting
\* once one of them has failed.
may_start_until_failure(res, app) == \A b \in Apps : res[b] # "err"

\* par_iter().map(..): every detected pair is handed to apply_to_file,
\* whatever became of the others.
may_start(res, app) == TRUE

\* The mutant of the collection of the results that keeps them in the order
\* the workers finished.
collect_in_completion_order(cfgs, finished) == finished

\* par_iter().map(..).collect::<Vec<_>>(): an indexed parallel iterator
\* collects in the order of its input, whatever the order of completion.
collect(cfgs, finished) == cfgs

\* The mutant of apply_theme that propagates the first failure.
apply_theme_return_first_error(res) ==
    IF \E a \in Apps : res[a] = "err" THEN "err" ELSE "ok"

\* apply_theme / apply_theme_filtered print one line per result and return
\* Ok(()).
apply_theme_return(res) == "ok"

\* The mutant of the error test that lets a failed generation pass.
generation_failed_never(c) == FALSE

\* generators::generate(theme, app)...? and generate_home_manager_module(..)?:
\* a generation error is returned at once.
generation_failed(c) == c = GenError

\* The mutant of the cache test that consults the freshness cache in either
\* deployment mode.
uses_incremental_any_mode(m, inc) == inc

\* if let Some(ref incremental) = self.incremental, of apply_standard alone:
\* apply_nix holds no use of the freshness cache.
uses_incremental(m, inc) == m = "standard" /\ inc

Done(a, r) ==
    /\ pc' = [pc EXCEPT ![a] = "done"]
    /\ result' = [result EXCEPT ![a] = r]
    /\ fin' = Append(fin, a)

Goto(a, l) ==
    /\ pc' = [pc EXCEPT ![a] = l]
    /\ UNCHANGED <<result, fin>>

Effect(a, e) == eff' = [eff EXCEPT ![a] = @ \cup {e}]

\* apply_to_file up to the dry-run return: generate the content (apply_standard)
\* or the Home Manager module (apply_nix).
Generate(a) ==
    /\ phase = "running" /\ pc[a] = "start"
    /\ may_start(result, a)
    /\ attempts' = [attempts EXCEPT ![a] = @ + 1]
    /\ LET c == IF mode = "nix" THEN generate_home_manager_module(theme, a)
                ELSE generate(theme, a)
       IN /\ content' = [content EXCEPT ![a] = c]
          /\ IF generation_failed(c) THEN Done(a, "err")
             ELSE IF dry_run_returns(dryRun) THEN Done(a, "ok")
             ELSE IF uses_incremental(mode, incr) THEN Goto(a, "check")
             ELSE IF mode = "nix" THEN Goto(a, "write")
             ELSE Goto(a, "backup")
    /\ UNCHANGED <<diskVars, phase, theme, dryRun, mode, incr, configs, loaded,
                   ret, eff, seen, snap, last, prev, batches, edits, report, su, exportVars, rs, cacheVars, pureVars>>

\* if let Ok(false) = incremental.should_update(..) { return Ok(()) }
Check(a) ==
    /\ phase = "running" /\ pc[a] = "check"
    /\ LET p == StdPath(a)
           r == should_update(table, tableOK, files, p, theme, content[a])
       IN /\ seen' = [seen EXCEPT ![a] =
                        [su |-> r,
                         hit |-> /\ tableOK
                                 /\ p \in DOMAIN table
                                 /\ table[p].theme = theme
                                 /\ table[p].hash = compute_hash(content[a]),
                         file |-> files[p],
                         nbak |-> Cardinality(BackupsOf(backups, p)),
                         last |-> last[a]]]
          /\ IF skips(r) THEN Done(a, "ok") ELSE Goto(a, "backup")
    /\ Effect(a, "tblread")
    /\ UNCHANGED <<diskVars, phase, theme, dryRun, mode, incr, configs, content,
                   loaded, ret, attempts, snap, last, prev, batches, edits, report, su, exportVars, rs, cacheVars, pureVars>>

\* if path.exists() { self.backup_file(path)? }
Backup(a) ==
    /\ phase = "running" /\ pc[a] = "backup"
    /\ LET p == StdPath(a) IN
       IF ~Exists(files, p)
       THEN /\ Goto(a, "write")
            /\ UNCHANGED <<backups, eff>>
       ELSE \/ /\ backups' = backup_file(backups, files, p, now)
               /\ Effect(a, "backup")
               /\ Goto(a, "write")
            \/ \* fs::copy fails, before or after it created the backup file
               /\ \/ UNCHANGED backups
                  \/ backups' = [backups EXCEPT ![BackupPath(p, now)] = Partial]
               /\ Done(a, "err")
               /\ UNCHANGED eff
    /\ last' = [last EXCEPT ![a] = "none"]
    /\ UNCHANGED <<files, dirs, table, tableOK, now, phase, theme, dryRun, mode,
                   incr, configs, content, loaded, ret, attempts, seen, snap,
                   prev, batches, edits, report, su, exportVars, rs, cacheVars, pureVars>>

\* fs::create_dir_all(parent)?; fs::write(path, &content)?
Write(a) ==
    /\ phase = "running" /\ pc[a] = "write"
    /\ LET p == Target(mode, a) IN
       \/ \* create_dir_all fails
          /\ p.dir \notin dirs
          /\ Done(a, "err")
          /\ UNCHANGED <<files, dirs, eff>>
       \/ \* fs::write fails, before or after it truncated the file
          /\ dirs' = dirs \cup {p.dir}
          /\ \/ UNCHANGED <<files, eff>>
             \/ /\ files' = [files EXCEPT ![p] = Partial]
                /\ Effect(a, "write")
          /\ Done(a, "err")
       \/ /\ dirs' = dirs \cup {p.dir}
          /\ files' = [files EXCEPT ![p] = content[a]]
          /\ Effect(a, "write")
          /\ IF uses_incremental(mode, incr) THEN Goto(a, "load") ELSE Done(a, "ok")
    /\ last' = IF mode = "standard" THEN [last EXCEPT ![a] = "none"] ELSE last
    /\ UNCHANGED <<backups, table, tableOK, now, phase, theme, dryRun, mode, incr,
                   configs, content, loaded, ret, attempts, seen, snap, prev,
                   batches, edits, report, su, exportVars, rs, cacheVars, pureVars>>

\* update_metadata, first half: the timestamp, then load_metadata()?
MetaLoad(a) ==
    /\ phase = "running" /\ pc[a] = "load"
    /\ IF tableOK
       THEN /\ loaded' = [loaded EXCEPT ![a] = [tbl |-> table, ts |-> now]]
            /\ Goto(a, "save")
       ELSE /\ Done(a, "err")
            /\ UNCHANGED loaded
    /\ Effect(a, "tblread")
    /\ UNCHANGED <<diskVars, phase, theme, dryRun, mode, incr, configs, content,
                   ret, attempts, seen, snap, last, prev, batches, edits, report, su, exportVars, rs, cacheVars, pureVars>>

\* update_metadata, second half: insert the entry into the loaded table and
\* save_metadata(), which rewrites metadata.toml wholesale.
MetaSave(a) ==
    /\ phase = "running" /\ pc[a] = "save"
    /\ table' = Upsert(loaded[a].tbl, StdPath(a), theme, content[a], loaded[a].ts)
    /\ Effect(a, "tblwrite")
    /\ Done(a, "ok")
    /\ last' = [b \in Apps |->
                  IF b = a THEN theme
                  ELSE IF (StdPath(b) \in DOMAIN table) # (StdPath(b) \in DOMAIN table')
                          \/ (StdPath(b) \in DOMAIN table
                              /\ table'[StdPath(b)] # table[StdPath(b)])
                       THEN "none"
                       ELSE last[b]]
    /\ UNCHANGED <<files, dirs, backups, tableOK, now, phase, theme, dryRun, mode,
                   incr, configs, content, loaded, ret, attempts, seen, snap,
                   prev, batches, edits, report, su, exportVars, rs, cacheVars, pureVars>>

----------------------------------------------------------------------------
(* FileManager: one batch, from apply_theme's call to its return.          *)

NoSeen == [su |-> "none", hit |-> FALSE, file |-> NoFile, nbak |-> 0,
           last |-> "none"]

NoLoad == [tbl |-> NoTable, ts |-> 0]

IdleBatch ==
    /\ phase = "idle"
    /\ theme = "none" /\ dryRun = FALSE /\ mode = "none"
    /\ configs = <<>>
    /\ pc = [a \in Apps |-> "off"]
    /\ content = [a \in Apps |-> ""]
    /\ loaded = [a \in Apps |-> NoLoad]
    /\ result = [a \in Apps |-> "none"]
    /\ ret = "none"
    /\ eff = [a \in Apps |-> {}]
    /\ attempts = [a \in Apps |-> 0]
    /\ seen = [a \in Apps |-> NoSeen]
    /\ snap = <<>>
    /\ report = <<>> /\ fin = <<>>

ResetBatch ==
    /\ phase' = "idle"
    /\ theme' = "none" /\ dryRun' = FALSE /\ mode' = "none"
    /\ configs' = <<>>
    /\ pc' = [a \in Apps |-> "off"]
    /\ content' = [a \in Apps |-> ""]
    /\ loaded' = [a \in Apps |-> NoLoad]
    /\ result' = [a \in Apps |-> "none"]
    /\ ret' = "none"
    /\ eff' = [a \in Apps |-> {}]
    /\ attempts' = [a \in Apps |-> 0]
    /\ seen' = [a \in Apps |-> NoSeen]
    /\ snap' = <<>>
    /\ report' = <<>> /\ fin' = <<>>

\* FileManager::new, then apply_theme (only = Apps) or apply_theme_filtered:
\* detect the targets and hand each to a worker.
BeginBatch(t, dry, m, only) ==
    /\ phase = "idle"
    /\ batches < MaxBatches
    /\ batches' = batches + 1
    /\ phase' = "running"
    /\ theme' = t /\ dryRun' = dry /\ mode' = m
    /\ LET cfgs == SelectSeq(detect_config_files(m, dry, files, dirs),
                             LAMBDA a : a \in only)
       IN /\ configs' = cfgs
          /\ pc' = [a \in Apps |-> IF InSeq(cfgs, a) THEN "start" ELSE "off"]
    /\ snap' = [files |-> files, dirs |-> dirs, backups |-> backups,
                table |-> table, tableOK |-> tableOK]
    /\ UNCHANGED <<diskVars, incr, content, loaded, result, ret, eff, attempts,
                   seen, last, prev, edits, report, fin, su, exportVars, rs, cacheVars, pureVars>>

\* The parallel map has collected every result: print them, return.
Report ==
    /\ phase = "running"
    /\ \A a \in Apps : \/ pc[a] \in {"off", "done"}
                       \/ pc[a] = "start" /\ ~may_start(result, a)
    /\ phase' = "done"
    /\ report' = collect(configs, fin)
    /\ ret' = apply_theme_return(result)
    /\ UNCHANGED <<diskVars, theme, dryRun, mode, incr, configs, pc, content,
                   loaded, result, histVars, su, exportVars, rs, cacheVars, pureVars>>

\* The process exits; only the disk remains.
Finish ==
    /\ phase = "done"
    /\ prev' = [theme |-> theme,
                apps  |-> IF mode = "standard" /\ ~dryRun /\ incr
                             /\ \A a \in Apps : pc[a] = "done" => result[a] = "ok"
                          THEN {a \in Apps : pc[a] = "done"}
                          ELSE {}]
    /\ ResetBatch
    /\ UNCHANGED <<diskVars, incr, last, batches, edits, su, exportVars, rs, cacheVars, pureVars>>

----------------------------------------------------------------------------
(* The environment, between two invocations.                               *)

Disturbed(p) == [a \in Apps |-> IF StdPath(a) = p THEN "none" ELSE last[a]]

\* Another program overwrites a target file.
ExternalEdit(p, c) ==
    /\ phase = "idle"
    /\ edits < MaxEdits
    /\ edits' = edits + 1
    /\ Exists(files, p) /\ files[p] # c
    /\ files' = [files EXCEPT ![p] = c]
    /\ last' = Disturbed(p)
    /\ prev' = [prev EXCEPT !.apps = {}]
    /\ UNCHANGED <<dirs, backups, table, tableOK, now, batchVars, eff, attempts,
                   seen, snap, batches, fin, su, exportVars, rs, cacheVars, pureVars>>

\* Another program deletes a target file.
ExternalDelete(p) ==
    /\ phase = "idle"
    /\ edits < MaxEdits
    /\ edits' = edits + 1
    /\ Exists(files, p)
    /\ files' = [files EXCEPT ![p] = NoFile]
    /\ last' = Disturbed(p)
    /\ prev' = [prev EXCEPT !.apps = {}]
    /\ UNCHANGED <<dirs, backups, table, tableOK, now, batchVars, eff, attempts,
                   seen, snap, batches, fin, su, exportVars, rs, cacheVars, pureVars>>

\* metadata.toml is damaged: it no longer parses.
CorruptTable ==
    /\ phase = "idle"
    /\ edits < MaxEdits
    /\ edits' = edits + 1
    /\ tableOK
    /\ tableOK' = FALSE
    /\ last' = [a \in Apps |-> "none"]
    /\ prev' = [prev EXCEPT !.apps = {}]
    /\ UNCHANGED <<files, dirs, backups, table, now, batchVars, eff, attempts,
                   seen, snap, batches, fin, su, exportVars, rs, cacheVars, pureVars>>

\* A second passes.
Tick ==
    /\ now < MaxTime
    /\ now' = now + 1
    /\ UNCHANGED <<files, dirs, backups, table, tableOK, batchVars, histVars, su,
                   exportVars, rs, cacheVars, pureVars>>

----------------------------------------------------------------------------
(* Values of the backup commands and of the theme cache.                   *)

\* restore_backup has not been called.
NoRestoreCall ==
    [b |-> BackupPath(StdPath("kitty"), 0), orig |-> StdPath("kitty"),
     had |-> NoFile, was |-> NoFile, at |-> 0, result |-> "none"]

\* The theme files of the themes directory.
CPaths == {"gruvbox.toml", "nord.toml"}

\* The rayon workers that call parse_theme_file_cached.
CThreads == {1, 2}

\* A file get_or_parse cannot stat.
NoThemeFile == [c |-> NoFile, m |-> 0]

\* The map has no entry for the key.
NoEntry == [theme |-> "<no entry>", m |-> -1]

\* Contents of a theme file: two valid themes, invalid TOML, and valid TOML
\* that validate_theme rejects.
CGood == {"theme v1", "theme v2"}
BadToml == "<not toml>"
InvalidTheme == "<invalid theme>"

\* The failures of get_or_parse.
MetaError == "Err: failed to read metadata"
ReadError == "Err: failed to read theme file"
TomlError == "Err: failed to parse TOML"
ValidationError == "Err: invalid theme"
CErrors == {MetaError, ReadError, TomlError, ValidationError}

IdleThreads ==
    /\ cpc = [t \in CThreads |-> "idle"]
    /\ cpath = [t \in CThreads |-> "none"]
    /\ cmt = [t \in CThreads |-> 0]
    /\ cent = [t \in CThreads |-> NoEntry]
    /\ cth = [t \in CThreads |-> ""]
    /\ cret = [t \in CThreads |-> "none"]
    /\ cheld = [t \in CThreads |-> FALSE]
    /\ chit = [t \in CThreads |-> FALSE]
    /\ cchg = [t \in CThreads |-> FALSE]

----------------------------------------------------------------------------
(* The specification of the applier.                                       *)

NoExport ==
    /\ xformat = "none" /\ xbad = {} /\ xfail = {}
    /\ xpc = <<>> /\ xgen = <<>> /\ xtries = <<>> /\ xout = {}
    /\ xresults = <<>> /\ xcount = <<>>

\* No restore_backup has been called.
NoRestore == rs = NoRestoreCall

\* No theme file, an empty ThemeCache and no call of get_or_parse.
NoCache ==
    /\ cfile = [p \in CPaths |-> NoThemeFile]
    /\ cache = [p \in CPaths |-> NoEntry]
    /\ IdleThreads
    /\ cgen = [p \in CPaths |-> "uncalled"]
    /\ ccalls = 0

NoCall == [p |-> StdPath("kitty"), theme |-> "none", c |-> "", result |-> "none"]

\* No library function has been called directly, and no themes directory.
NoDirectCall == [fn |-> "none"]

NoPure == call = NoDirectCall /\ tdir = <<>>

Init ==
    /\ files \in [Paths -> {NoFile, Edited}]
    /\ \A p \in NixPaths : files[p] = NoFile
    /\ dirs = {p.dir : p \in {q \in Paths : files[q] # NoFile}}
    /\ backups = [b \in BackupPaths |-> NoFile]
    /\ table = NoTable
    /\ tableOK = TRUE
    /\ now = 0
    /\ IdleBatch
    /\ incr \in BOOLEAN
    /\ batches = 0 /\ edits = 0
    /\ last = [a \in Apps |-> "none"]
    /\ prev = [theme |-> "none", apps |-> {}]
    /\ su = NoCall
    /\ NoExport
    /\ NoRestore
    /\ NoPure
    /\ NoCache

Worker(a) ==
    \/ Generate(a)
    \/ Check(a)
    \/ Backup(a)
    \/ Write(a)
    \/ MetaLoad(a)
    \/ MetaSave(a)

Environment ==
    \/ \E p \in StdPaths, c \in {Edited, Binary} : ExternalEdit(p, c)
    \/ \E p \in StdPaths : ExternalDelete(p)
    \/ CorruptTable
    \/ Tick

Next ==
    \/ \E t \in ThemeNames, dry \in BOOLEAN, m \in {"standard", "nix"},
          only \in (SUBSET Apps) \ {{}} :
          BeginBatch(t, dry, m, only)
    \/ \E a \in Apps : Worker(a)
    \/ Report
    \/ Finish
    \/ Environment

Spec == Init /\ [][Next]_vars

----------------------------------------------------------------------------
(* should_update as a function: the table, the file and the arguments are  *)
(* drawn from every combination of the values below.                       *)

SUPath == StdPath("kitty")

SUContents == {generate(t, "kitty") : t \in ThemeNames}

SUEntries ==
    [theme : ThemeNames, hash : {compute_hash(c) : c \in SUContents},
     last_updated : {0}]

InitSU ==
    /\ files \in [Paths -> {NoFile, Edited, Binary} \cup SUContents]
    /\ \A p \in Paths \ {SUPath} : files[p] = NoFile
    /\ dirs = {p.dir : p \in {q \in Paths : files[q] # NoFile}}
    /\ backups = [b \in BackupPaths |-> NoFile]
    /\ table \in {NoTable} \cup {SUPath :> e : e \in SUEntries}
    /\ tableOK \in BOOLEAN
    /\ now = 0
    /\ IdleBatch
    /\ incr = TRUE
    /\ batches = 0 /\ edits = 0
    /\ last = [a \in Apps |-> "none"]
    /\ prev = [theme |-> "none", apps |-> {}]
    /\ su = NoCall
    /\ NoExport
    /\ NoRestore
    /\ NoPure
    /\ NoCache

CallShouldUpdate(p, themeName, c) ==
    /\ su' = [p |-> p, theme |-> themeName, c |-> c,
              result |-> should_update(table, tableOK, files, p, themeName, c)]
    /\ UNCHANGED <<diskVars, batchVars, histVars, exportVars, rs, cacheVars, pureVars>>

NextSU ==
    \E themeName \in ThemeNames, c \in SUContents :
        CallShouldUpdate(SUPath, themeName, c)

SpecSU == InitSU /\ [][NextSU]_vars

----------------------------------------------------------------------------
(* Cli::export_all_themes and generators::generate_all_parallel.           *)

\* The theme files find_theme_files returns, by file stem.
XThemes == {"gruvbox", "nord"}

\* The formats of generate_all_parallel (a prefix of the list of 15).
XAllFormats == <<"kitty", "waybar", "neovim">>

\* The formats one theme is exported to: all of them, or the one asked for.
XFormats(format) ==
    IF format = "all" THEN {XAllFormats[i] : i \in 1..Len(XAllFormats)}
    ELSE {format}

\* generators::generate knows the format (matched in lower case).
XKnown(format) == format \in {"kitty", "waybar", "neovim"}

XPairs(format) == XThemes \X XFormats(format)

NoResult == [status |-> "none", why |-> "", failed |-> {}]

InitExport ==
    /\ files = [p \in Paths |-> NoFile]
    /\ dirs = {}
    /\ backups = [b \in BackupPaths |-> NoFile]
    /\ table = NoTable
    /\ tableOK = TRUE
    /\ now = 0
    /\ IdleBatch
    /\ incr = TRUE
    /\ batches = 0 /\ edits = 0
    /\ last = [a \in Apps |-> "none"]
    /\ prev = [theme |-> "none", apps |-> {}]
    /\ su = NoCall
    /\ NoRestore
    /\ NoPure
    /\ NoCache
    /\ xformat \in {"all", "kitty", "bogus"}
    /\ xbad \in SUBSET XThemes
    /\ xfail \in {f \in SUBSET XPairs(xformat) : Cardinality(f) <= 1}
    /\ xpc = [t \in XThemes |-> "todo"]
    /\ xgen = [q \in XPairs(xformat) |-> "none"]
    /\ xtries = [q \in XPairs(xformat) |-> 0]
    /\ xout = {}
    /\ xresults = [t \in XThemes |-> NoResult]
    /\ xcount = <<>>

\* The mutant of generate_all_parallel that stops at the first format that
\* fails.
x_may_generate_until_failure(gen, t, f) ==
    \A q \in DOMAIN gen : q[1] = t => gen[q] # "err"

\* generate_all_parallel maps every format; the single-format loop has no
\* early exit either.
x_may_generate(gen, t, f) == TRUE

\* The unit of work of one theme file, first part: parse_theme_file_cached,
\* then create_dir_all of the theme's output directory.
XParse(t) ==
    /\ xpc[t] = "todo"
    /\ \/ /\ t \in xbad
          /\ xresults' = [xresults EXCEPT ![t] =
                            [status |-> "err", why |-> "parse", failed |-> {}]]
          /\ xpc' = [xpc EXCEPT ![t] = "done"]
       \/ /\ t \notin xbad
          /\ \/ /\ xpc' = [xpc EXCEPT ![t] = "gen"]
                /\ UNCHANGED xresults
             \/ /\ xresults' = [xresults EXCEPT ![t] =
                                  [status |-> "err", why |-> "mkdir", failed |-> {}]]
                /\ xpc' = [xpc EXCEPT ![t] = "done"]
    /\ UNCHANGED <<diskVars, batchVars, histVars, su, rs, cacheVars, pureVars, xformat, xbad, xfail, xgen,
                   xtries, xout, xcount>>

\* generators::generate(&theme, fmt) for one format of one theme.
XGenerate(t, f) ==
    /\ xpc[t] = "gen"
    /\ xgen[<<t, f>>] = "none"
    /\ x_may_generate(xgen, t, f)
    /\ xtries' = [xtries EXCEPT ![<<t, f>>] = @ + 1]
    /\ xgen' = [xgen EXCEPT ![<<t, f>>] =
                  IF XKnown(f) /\ <<t, f>> \notin xfail THEN "ok" ELSE "err"]
    /\ UNCHANGED <<diskVars, batchVars, histVars, su, rs, cacheVars, pureVars, xformat, xbad, xfail, xpc,
                   xout, xresults, xcount>>

\* The loop over the generated results: write each file, collect the errors,
\* and return Ok(name) or Err("Errors for ..").  wfail: the writes that fail.
XFold(t, wfail) ==
    /\ xpc[t] = "gen"
    /\ \A f \in XFormats(xformat) :
          xgen[<<t, f>>] # "none" \/ ~x_may_generate(xgen, t, f)
    /\ LET generated == {f \in XFormats(xformat) : xgen[<<t, f>>] = "ok"}
           errors == (XFormats(xformat) \ generated) \cup wfail
       IN /\ wfail \subseteq generated
          /\ xout' = xout \cup {<<t, f>> : f \in generated \ wfail}
          /\ xgen' = [q \in XPairs(xformat) |->
                        IF q[1] = t /\ q[2] \in wfail THEN "err" ELSE xgen[q]]
          /\ xresults' = [xresults EXCEPT ![t] =
                            IF errors = {}
                            THEN [status |-> "ok", why |-> "", failed |-> {}]
                            ELSE [status |-> "err", why |-> "formats",
                                  failed |-> errors]]
    /\ xpc' = [xpc EXCEPT ![t] = "done"]
    /\ UNCHANGED <<diskVars, batchVars, histVars, su, rs, cacheVars, pureVars, xformat, xbad, xfail,
                   xtries, xcount>>

\* The loop over the collected results: success_count and error_count.
XCount ==
    /\ xcount = <<>>
    /\ \A t \in XThemes : xpc[t] = "done"
    /\ xcount' = <<Cardinality({t \in XThemes : xresults[t].status = "ok"}),
                   Cardinality({t \in XThemes : xresults[t].status = "err"})>>
    /\ UNCHANGED <<diskVars, batchVars, histVars, su, rs, cacheVars, pureVars, xformat, xbad, xfail, xpc,
                   xgen, xtries, xout, xresults>>

NextExport ==
    \/ \E t \in XThemes : XParse(t)
    \/ \E t \in XThemes, f \in XFormats(xformat) : XGenerate(t, f)
    \/ \E t \in XThemes, wfail \in SUBSET XFormats(xformat) : XFold(t, wfail)
    \/ XCount

SpecExport == InitExport /\ [][NextExport]_vars

----------------------------------------------------------------------------
(* ThemeCache::get_or_parse (src/src/cache.rs), called by the workers of   *)
(* validate_all_themes and export_all_themes.  Every operation of the      *)
(* DashMap (get, remove, insert) is one step; a Ref returned by get holds  *)
(* the read lock of the key's shard until it is dropped.  Each key of the  *)
(* model has a shard of its own.                                           *)

applierVars == <<diskVars, batchVars, histVars, su, exportVars, rs, pureVars>>

\* toml::from_str, then validate_theme.
parse_theme(c) ==
    IF c = BadToml THEN TomlError
    ELSE IF c = InvalidTheme THEN ValidationError
    ELSE "Theme(" \o c \o ")"

\* fs::read_to_string(path)?, then parse_theme.
parse_theme_file(f) ==
    IF f.c = NoFile \/ f.c = Binary THEN ReadError ELSE parse_theme(f.c)

\* The mutant of the freshness test that takes every entry for fresh.
mtime_matches_always(cached_mtime, file_mtime) == TRUE

\* if *cached_mtime == file_mtime
mtime_matches(cached_mtime, file_mtime) == cached_mtime = file_mtime

\* The mutant of `?` that lets a failed parse go on to the insert.
propagates_never(r) == FALSE

\* parse_theme_file(&path)?: an Err returns from get_or_parse at once.
propagates(r) == r \in CErrors

\* The mutant of insert that rebuilds the map around the new entry.
cache_insert_alone(c, p, th, mt) ==
    [q \in CPaths |-> IF q = p THEN [theme |-> th, m |-> mt] ELSE NoEntry]

\* self.cache.insert(path, (theme.clone(), file_mtime))
cache_insert(c, p, th, mt) == [c EXCEPT ![p] = [theme |-> th, m |-> mt]]

\* The write lock of the shard of key p can be taken: no Ref into the shard
\* is alive, the caller's own included.
write_lock_free(held, paths, p) ==
    \A u \in CThreads : ~(held[u] /\ paths[u] = p)

\* A thread is parked for the write lock of the shard of key p.
WriterParked(p) == \E u \in CThreads : cpc[u] = "blocked" /\ cpath[u] = p

\* The files whose change a running call is exposed to.
Exposed(p) ==
    [t \in CThreads |-> cchg[t] \/ (cpc[t] # "idle" /\ cpath[t] = p)]

\* A worker calls get_or_parse(path).
CCall(t, p) ==
    /\ cpc[t] = "idle"
    /\ ccalls < MaxCalls
    /\ ccalls' = ccalls + 1
    /\ cpc' = [cpc EXCEPT ![t] = "stat"]
    /\ cpath' = [cpath EXCEPT ![t] = p]
    /\ cgen' = [cgen EXCEPT ![p] = IF @ = "uncalled" THEN "called" ELSE @]
    /\ UNCHANGED <<cfile, cache, cmt, cent, cth, cret, cheld, chit, cchg,
                   applierVars>>

\* fs::metadata(&path)?.modified()?
CStat(t) ==
    /\ cpc[t] = "stat"
    /\ IF cfile[cpath[t]].c = NoFile
       THEN /\ cret' = [cret EXCEPT ![t] = MetaError]
            /\ cpc' = [cpc EXCEPT ![t] = "done"]
            /\ UNCHANGED cmt
       ELSE /\ cmt' = [cmt EXCEPT ![t] = cfile[cpath[t]].m]
            /\ cpc' = [cpc EXCEPT ![t] = "lookup"]
            /\ UNCHANGED cret
    /\ UNCHANGED <<cfile, cache, cpath, cent, cth, cheld, chit, cchg, ccalls,
                   cgen, applierVars>>

\* if let Some(entry) = self.cache.get(&path): a hit returns the clone; on a
\* stale entry the call goes on to remove it with `entry` still alive.  Where a
\* writer is parked for the shard, the lock may or may not let a reader by.
CLookup(t) ==
    /\ cpc[t] = "lookup"
    /\ LET p == cpath[t]
           e == cache[p]
       IN \/ /\ cent' = [cent EXCEPT ![t] = e]
             /\ IF e = NoEntry
                THEN /\ cpc' = [cpc EXCEPT ![t] = "parse"]
                     /\ UNCHANGED <<cret, cheld, chit>>
                ELSE IF mtime_matches(e.m, cmt[t])
                THEN /\ cret' = [cret EXCEPT ![t] = e.theme]
                     /\ chit' = [chit EXCEPT ![t] = TRUE]
                     /\ cpc' = [cpc EXCEPT ![t] = "done"]
                     /\ UNCHANGED cheld
                ELSE /\ cheld' = [cheld EXCEPT ![t] = TRUE]
                     /\ cpc' = [cpc EXCEPT ![t] = "remove"]
                     /\ UNCHANGED <<cret, chit>>
          \/ /\ WriterParked(p)
             /\ cpc' = [cpc EXCEPT ![t] = "blocked"]
             /\ UNCHANGED <<cent, cret, cheld, chit>>
    /\ UNCHANGED <<cfile, cache, cpath, cmt, cth, cchg, ccalls, cgen,
                   applierVars>>

\* self.cache.remove(&path), inside the if-let block: it waits for the write
\* lock of the shard.
CRemove(t) ==
    /\ cpc[t] = "remove"
    /\ IF write_lock_free(cheld, cpath, cpath[t])
       THEN /\ cache' = [cache EXCEPT ![cpath[t]] = NoEntry]
            /\ cheld' = [cheld EXCEPT ![t] = FALSE]
            /\ cpc' = [cpc EXCEPT ![t] = "parse"]
       ELSE /\ cpc' = [cpc EXCEPT ![t] = "blocked"]
            /\ UNCHANGED <<cache, cheld>>
    /\ UNCHANGED <<cfile, cpath, cmt, cent, cth, cret, chit, cchg, ccalls,
                   cgen, applierVars>>

\* let theme = parser::parse_theme_file(&path)?
CParse(t) ==
    /\ cpc[t] = "parse"
    /\ LET r == parse_theme_file(cfile[cpath[t]])
       IN /\ cth' = [cth EXCEPT ![t] = r]
          /\ IF propagates(r)
             THEN /\ cret' = [cret EXCEPT ![t] = r]
                  /\ cpc' = [cpc EXCEPT ![t] = "done"]
             ELSE /\ cpc' = [cpc EXCEPT ![t] = "insert"]
                  /\ UNCHANGED cret
    /\ UNCHANGED <<cfile, cache, cpath, cmt, cent, cheld, chit, cchg, ccalls,
                   cgen, applierVars>>

\* self.cache.insert(path, (theme.clone(), file_mtime)); Ok(theme)
CInsert(t) ==
    /\ cpc[t] = "insert"
    /\ IF write_lock_free(cheld, cpath, cpath[t])
       THEN /\ cache' = cache_insert(cache, cpath[t], cth[t], cmt[t])
            /\ cret' = [cret EXCEPT ![t] = cth[t]]
            /\ cpc' = [cpc EXCEPT ![t] = "done"]
       ELSE /\ cpc' = [cpc EXCEPT ![t] = "blocked"]
            /\ UNCHANGED <<cache, cret>>
    /\ UNCHANGED <<cfile, cpath, cmt, cent, cth, cheld, chit, cchg, ccalls,
                   cgen, applierVars>>

\* The caller has its result; the worker is free for the next file.
CReturn(t) ==
    /\ cpc[t] = "done"
    /\ cpc' = [cpc EXCEPT ![t] = "idle"]
    /\ cpath' = [cpath EXCEPT ![t] = "none"]
    /\ cmt' = [cmt EXCEPT ![t] = 0]
    /\ cent' = [cent EXCEPT ![t] = NoEntry]
    /\ cth' = [cth EXCEPT ![t] = ""]
    /\ cret' = [cret EXCEPT ![t] = "none"]
    /\ chit' = [chit EXCEPT ![t] = FALSE]
    /\ cchg' = [cchg EXCEPT ![t] = FALSE]
    /\ UNCHANGED <<cfile, cache, cheld, ccalls, cgen, applierVars>>

\* Another program rewrites or deletes (c = NoFile) a theme file; a write
\* gives the file a later modification time.
CTouch(p, c) ==
    /\ cfile[p].m < MaxMTime
    /\ cfile[p].c # c
    /\ cfile' = [cfile EXCEPT ![p] = [c |-> c, m |-> cfile[p].m + 1]]
    /\ cchg' = Exposed(p)
    /\ cgen' = [cgen EXCEPT ![p] = IF @ = "called" THEN "changed" ELSE @]
    /\ UNCHANGED <<cache, cpc, cpath, cmt, cent, cth, cret, cheld, chit, ccalls,
                   applierVars>>

CContents == CGood \cup {BadToml, InvalidTheme, Binary}

InitCache ==
    /\ files = [p \in Paths |-> NoFile]
    /\ dirs = {}
    /\ backups = [b \in BackupPaths |-> NoFile]
    /\ table = NoTable
    /\ tableOK = TRUE
    /\ now = 0
    /\ IdleBatch
    /\ incr = TRUE
    /\ batches = 0 /\ edits = 0
    /\ last = [a \in Apps |-> "none"]
    /\ prev = [theme |-> "none", apps |-> {}]
    /\ su = NoCall
    /\ NoExport
    /\ NoRestore
    /\ NoPure
    /\ cfile \in [CPaths -> {[c |-> c, m |-> 0] : c \in {"theme v1", BadToml}}]
    /\ cache = [p \in CPaths |-> NoEntry]
    /\ IdleThreads
    /\ cgen = [p \in CPaths |-> "uncalled"]
    /\ ccalls = 0

CStep(t) ==
    \/ \E p \in CPaths : CCall(t, p)
    \/ CStat(t)
    \/ CLookup(t)
    \/ CRemove(t)
    \/ CParse(t)
    \/ CInsert(t)
    \/ CReturn(t)

NextCache ==
    \/ \E t \in CThreads : CStep(t)
    \/ \E p \in CPaths, c \in CContents \cup {NoFile} : CTouch(p, c)

SpecCache == InitCache /\ [][NextCache]_vars

\* The scheduler lets every worker that can take a step take one.
SpecCacheFair == SpecCache /\ \A t \in CThreads : WF_vars(CStep(t))

----------------------------------------------------------------------------
(* Cli::restore_backup (src/src/cli.rs): `themectl backups restore`.       *)

\* The extensions get_original_path_from_backup tries, in its order.
RestoreExts == <<"conf", "css", "toml", "lua", "jsonc", "json">>

\* The files of the restore model: the targets, and for each the file of the
\* same stem with the default extension.
RPaths == Paths \cup {[dir |-> p.dir, stem |-> p.stem, ext |-> "conf"] : p \in StdPaths}

\* What the files and backups of the restore model hold at the start.
RContents == {Edited, generate("A", "waybar")}

\* get_original_path_from_backup: "<stem>.<ts>.bak" names the first existing
\* "<stem>.<ext>" of the list in the backup's directory, and "<stem>.conf"
\* when there is none.
get_original_path_from_backup(fs, b) ==
    LET cand(i) == [dir |-> b.dir, stem |-> b.stem, ext |-> RestoreExts[i]]
        found == {i \in 1..Len(RestoreExts) :
                     cand(i) \in DOMAIN fs /\ fs[cand(i)] # NoFile}
    IN IF found # {}
       THEN cand(CHOOSE i \in found : \A j \in found : i <= j)
       ELSE cand(1)

RestoreCall(b, orig, r) ==
    [b |-> b, orig |-> orig, had |-> backups[b],
     was |-> IF orig \in DOMAIN files THEN files[orig] ELSE NoFile,
     at |-> now, result |-> r]

\* restore_backup(backup_path) with the answer read from stdin.
Restore(b, answer) ==
    LET orig == get_original_path_from_backup(files, b)
        kept == IF Exists(files, orig)
                THEN backup_file(backups, files, orig, now)
                ELSE backups
    IN /\ IF backups[b] = NoFile
          THEN \* bail!("Backup file not found")
               /\ rs' = RestoreCall(b, orig, "err")
               /\ UNCHANGED <<files, backups>>
          ELSE IF answer # "y"
          THEN \* Cancelled.
               /\ rs' = RestoreCall(b, orig, "cancelled")
               /\ UNCHANGED <<files, backups>>
          ELSE \/ \* backup_file(&original_path)? fails
                  /\ Exists(files, orig)
                  /\ \/ UNCHANGED backups
                     \/ backups' = [backups EXCEPT ![BackupPath(orig, now)] = Partial]
                  /\ rs' = RestoreCall(b, orig, "err")
                  /\ UNCHANGED files
               \/ \* fs::copy(&backup_path, &original_path) fails
                  /\ backups' = kept
                  /\ \/ UNCHANGED files
                     \/ files' = [files EXCEPT ![orig] = Partial]
                  /\ rs' = RestoreCall(b, orig, "err")
               \/ /\ backups' = kept
                  /\ files' = [files EXCEPT ![orig] = kept[b]]
                  /\ rs' = RestoreCall(b, orig, "ok")
       /\ UNCHANGED <<dirs, table, tableOK, now, batchVars, histVars, su,
                      exportVars, cacheVars, pureVars>>

\* The waybar directory with its stylesheet, possibly a style.conf beside it,
\* and possibly a backup taken in the current second.
InitRestore ==
    /\ files \in [RPaths -> RContents \cup {NoFile}]
    /\ \A p \in RPaths : p.dir # "waybar" => files[p] = NoFile
    /\ dirs = {"waybar"}
    /\ backups \in [BackupPaths -> RContents \cup {NoFile}]
    /\ \A b \in BackupPaths : (b.dir # "waybar" \/ b.ts # 0) => backups[b] = NoFile
    /\ table = NoTable
    /\ tableOK = TRUE
    /\ now = 0
    /\ IdleBatch
    /\ incr = TRUE
    /\ batches = 0 /\ edits = 0
    /\ last = [a \in Apps |-> "none"]
    /\ prev = [theme |-> "none", apps |-> {}]
    /\ su = NoCall
    /\ NoExport
    /\ NoRestore
    /\ NoPure
    /\ NoCache

NextRestore ==
    \/ \E b \in BackupPaths, answer \in {"y", "n"} : Restore(b, answer)
    \/ Tick

SpecRestore == InitRestore /\ [][NextRestore]_vars

----------------------------------------------------------------------------
(* The colour helpers of src/src/utils.rs.  A string is the sequence of    *)
(* its characters, each a one-character string, except "U+00E9" (e with    *)
(* an acute accent), a character whose UTF-8 encoding has two bytes.       *)

HexLower == <<"0", "1", "2", "3", "4", "5", "6", "7", "8", "9",
              "a", "b", "c", "d", "e", "f">>

\* char::to_digit(16): the value of a hexadecimal digit, -1 for any other
\* character.
to_digit(ch) ==
    CASE ch = "0" -> 0  [] ch = "1" -> 1  [] ch = "2" -> 2  [] ch = "3" -> 3
      [] ch = "4" -> 4  [] ch = "5" -> 5  [] ch = "6" -> 6  [] ch = "7" -> 7
      [] ch = "8" -> 8  [] ch = "9" -> 9
      [] ch \in {"a", "A"} -> 10  [] ch \in {"b", "B"} -> 11
      [] ch \in {"c", "C"} -> 12  [] ch \in {"d", "D"} -> 13
      [] ch \in {"e", "E"} -> 14  [] ch \in {"f", "F"} -> 15
      [] OTHER -> -1

\* The UTF-8 encoding of a string: one element per byte.  The second byte of
\* a two-byte character is the continuation mark "~", which is no character.
RECURSIVE as_bytes(_)
as_bytes(s) ==
    IF s = <<>> THEN <<>>
    ELSE (IF Head(s) = "U+00E9" THEN <<"U+00E9", "~">> ELSE <<Head(s)>>) \o as_bytes(Tail(s))

\* str::is_char_boundary on the bytes of a string.
is_char_boundary(bytes, k) ==
    k = 0 \/ k = Len(bytes) \/ (k < Len(bytes) /\ bytes[k + 1] # "~")

\* str::trim_start_matches('#'): every leading '#' is removed.
\* The optional '#' of the regular expression: at most one is skipped.
trim_start_matches_one(s) ==
    IF s # <<>> /\ Head(s) = "#" THEN Tail(s) ELSE s

RECURSIVE trim_start_matches(_)
trim_start_matches(s) ==
    IF s # <<>> /\ Head(s) = "#" THEN trim_start_matches(Tail(s)) ELSE s

\* u8::from_str_radix(src, 16) on a slice of two bytes: one leading '+' is
\* accepted and skipped, '-' is not a digit of an unsigned type.  -1 is Err.
from_str_radix(src) ==
    LET digits == IF src[1] = "+" THEN Tail(src) ELSE src
    IN  IF \E i \in 1..Len(digits) : to_digit(digits[i]) = -1
        THEN -1
        ELSE IF Len(digits) = 1 THEN to_digit(digits[1])
             ELSE 16 * to_digit(digits[1]) + to_digit(digits[2])

NoRgb    == [tag |-> "None", r |-> 0, g |-> 0, b |-> 0]
PanicRgb == [tag |-> "panic", r |-> 0, g |-> 0, b |-> 0]
SomeRgb(r, g, b) == [tag |-> "Some", r |-> r, g |-> g, b |-> b]

\* hex_to_rgb: the length is counted in bytes and each channel is a slice
\* of two bytes, which panics when it does not end on a character boundary.
hex_to_rgb(hexArg) ==
    LET hex == as_bytes(trim_start_matches(hexArg))
        r == from_str_radix(SubSeq(hex, 1, 2))
        g == from_str_radix(SubSeq(hex, 3, 4))
        b == from_str_radix(SubSeq(hex, 5, 6))
    IN  IF Len(hex) # 6 THEN NoRgb
        ELSE IF ~is_char_boundary(hex, 2) THEN PanicRgb
        ELSE IF r = -1 THEN NoRgb
        ELSE IF ~is_char_boundary(hex, 4) THEN PanicRgb
        ELSE IF g = -1 THEN NoRgb
        ELSE IF b = -1 THEN NoRgb
        ELSE SomeRgb(r, g, b)

\* format!("{:02x}", n) for a u8.
LowerHex2(n) == <<HexLower[(n \div 16) + 1], HexLower[(n % 16) + 1]>>

rgb_to_hex(r, g, b) == <<"#">> \o LowerHex2(r) \o LowerHex2(g) \o LowerHex2(b)

\* The regular expression ^#?[0-9A-Fa-f]{6}$.
validate_hex_color(color) ==
    LET digits == trim_start_matches_one(color)
    IN  /\ Len(digits) = 6
        /\ \A i \in 1..6 : to_digit(digits[i]) # -1

normalize_hex(hex) ==
    IF hex # <<>> /\ Head(hex) = "#" THEN hex ELSE <<"#">> \o hex

MaxHashes == 2
MaxHexLen == 7
HexAlphabet == {"+", "A", "f", "g", "U+00E9"}

RECURSIVE Hashes(_)
Hashes(k) == IF k = 0 THEN <<>> ELSE <<"#">> \o Hashes(k - 1)

\* The strings of at most h leading '#' and then at most n characters.
HexInputs(h, n) ==
    {Hashes(k) \o body : k \in 0..h,
                         body \in UNION {[1..m -> HexAlphabet] : m \in 0..n}}

HexCall(s, done, rgb, back) ==
    [fn |-> "hex_to_rgb", arg |-> s, done |-> done, rgb |-> rgb, back |-> back]

InitHex ==
    /\ files = [p \in Paths |-> NoFile]
    /\ dirs = {}
    /\ backups = [b \in BackupPaths |-> NoFile]
    /\ table = NoTable
    /\ tableOK = TRUE
    /\ now = 0
    /\ IdleBatch
    /\ incr = TRUE
    /\ batches = 0 /\ edits = 0
    /\ last = [a \in Apps |-> "none"]
    /\ prev = [theme |-> "none", apps |-> {}]
    /\ su = NoCall
    /\ NoExport
    /\ NoRestore
    /\ NoCache
    /\ call \in {HexCall(s, FALSE, NoRgb, <<>>) : s \in HexInputs(MaxHashes, MaxHexLen)}
    /\ tdir = <<>>

\* hex_to_rgb(arg) and, when it gives a value, rgb_to_hex of its channels.
CallHexToRgb ==
    /\ call.fn = "hex_to_rgb" /\ ~call.done
    /\ LET rgb == hex_to_rgb(call.arg)
       IN  call' = HexCall(call.arg, TRUE, rgb,
                           IF rgb.tag = "Some" THEN rgb_to_hex(rgb.r, rgb.g, rgb.b)
                           ELSE <<>>)
    /\ UNCHANGED <<diskVars, batchVars, histVars, su, exportVars, rs, cacheVars, tdir>>

NextHex == CallHexToRgb

SpecHex == InitHex /\ [][NextHex]_vars

----------------------------------------------------------------------------
(* Theme (src/src/theme.rs) and validate_theme (src/src/parser.rs).        *)

RequiredColors == <<"bg", "fg", "accent", "red", "green", "yellow", "blue",
                    "magenta", "cyan">>
OptionalColors == <<"orange", "purple", "pink", "white", "black", "gray">>
ColorNames == RequiredColors \o OptionalColors

Range(s) == {s[i] : i \in DOMAIN s}

\* Option::None of an optional colour: no string.
None == <<"None">>

\* ThemeProperties: all fields absent (the default), or some present.
NoProperties   == [border_radius |-> -1, spacing |-> -1]
SomeProperties == [border_radius |-> 0, spacing |-> 65536]

Theme(name, description, variant, colors, properties) ==
    [name |-> name, description |-> description, variant |-> variant,
     colors |-> colors, properties |-> properties]

White == <<"#", "f", "f", "f", "f", "f", "f">>

ValidOk == [ok |-> TRUE, field |-> "none"]
ValidErr(field) == [ok |-> FALSE, field |-> field]

\* validate_color(color, name)
validate_color(color) == validate_hex_color(color)

validate_theme_required_only(th) ==
    IF th.name = <<>> THEN ValidErr("name")
    ELSE IF \E i \in 1..Len(RequiredColors) :
                ~validate_color(th.colors[RequiredColors[i]])
    THEN ValidErr(RequiredColors[
             CHOOSE i \in 1..Len(RequiredColors) :
                 /\ ~validate_color(th.colors[RequiredColors[i]])
                 /\ \A j \in 1..(i - 1) : validate_color(th.colors[RequiredColors[j]])])
    ELSE ValidOk

\* validate_theme: the name, then the nine required colours in order, then
\* each optional colour that is present; the first failure is returned.
validate_theme(th) ==
    LET checked(i) == \/ i <= Len(RequiredColors)
                      \/ th.colors[ColorNames[i]] # None
        bad(i) == checked(i) /\ ~validate_color(th.colors[ColorNames[i]])
    IN  IF th.name = <<>> THEN ValidErr("name")
        ELSE IF \E i \in 1..Len(ColorNames) : bad(i)
        THEN ValidErr(ColorNames[CHOOSE i \in 1..Len(ColorNames) :
                                     bad(i) /\ \A j \in 1..(i - 1) : ~bad(j)])
        ELSE ValidOk

MaxOdd == 2

\* The colour strings a theme file may hold.
ColorSamples ==
    { White,
      <<"F", "F", "0", "0", "a", "a">>,
      <<"#", "#", "f", "f", "f", "f", "f", "f">>,
      <<"#", "f", "f", "f", "f", "f">>,
      <<"#", "g", "g", "g", "g", "g", "g">>,
      <<"f", "f", "f", "f", "f", "f", "#">>,
      <<>> }

PlainColors ==
    [c \in Range(ColorNames) |-> IF c \in Range(RequiredColors) THEN White ELSE None]

\* The palettes that differ from a plain one in at most k colours, each of
\* these taken from the samples; a required colour is never absent.
OddPalettesOf(plain, samples, k) ==
    UNION {{[c \in Range(ColorNames) |-> IF c \in S THEN odd[c] ELSE plain[c]] :
               odd \in {f \in [S -> samples] :
                           \A c \in S \cap Range(RequiredColors) : f[c] # None}} :
           S \in {T \in SUBSET Range(ColorNames) : Cardinality(T) <= k}}

OddPalettes(k) == OddPalettesOf(PlainColors, ColorSamples \cup {None}, k)

ValidateCall(th, done, res) ==
    [fn |-> "validate_theme", theme |-> th, done |-> done, result |-> res]

InitValidate ==
    /\ files = [p \in Paths |-> NoFile]
    /\ dirs = {}
    /\ backups = [b \in BackupPaths |-> NoFile]
    /\ table = NoTable
    /\ tableOK = TRUE
    /\ now = 0
    /\ IdleBatch
    /\ incr = TRUE
    /\ batches = 0 /\ edits = 0
    /\ last = [a \in Apps |-> "none"]
    /\ prev = [theme |-> "none", apps |-> {}]
    /\ su = NoCall
    /\ NoExport
    /\ NoRestore
    /\ NoCache
    /\ \E name \in {<<>>, <<"n">>}, colors \in OddPalettes(MaxOdd),
          properties \in {NoProperties, SomeProperties} :
          call = ValidateCall(Theme(name, <<>>, None, colors, properties), FALSE, ValidOk)
    /\ tdir = <<>>

CallValidateTheme ==
    /\ call.fn = "validate_theme" /\ ~call.done
    /\ call' = ValidateCall(call.theme, TRUE, validate_theme(call.theme))
    /\ UNCHANGED <<diskVars, batchVars, histVars, su, exportVars, rs, cacheVars, tdir>>

NextValidate == CallValidateTheme

SpecValidate == InitValidate /\ [][NextValidate]_vars

----------------------------------------------------------------------------
(* Names and variants (src/src/theme.rs), lightness and generate_variant   *)
(* (src/src/utils.rs).                                                     *)

LowerLetters == <<"a", "b", "c", "d", "e", "f", "g", "h", "i", "j", "k", "l", "m",
                  "n", "o", "p", "q", "r", "s", "t", "u", "v", "w", "x", "y", "z">>
UpperLetters == <<"A", "B", "C", "D", "E", "F", "G", "H", "I", "J", "K", "L", "M",
                  "N", "O", "P", "Q", "R", "S", "T", "U", "V", "W", "X", "Y", "Z">>

\* char::to_lowercase on the characters the model uses.
to_lowercase_char(ch) ==
    IF \E i \in 1..26 : UpperLetters[i] = ch
    THEN LowerLetters[CHOOSE i \in 1..26 : UpperLetters[i] = ch]
    ELSE ch

\* str::to_lowercase
to_lowercase(s) == [i \in 1..Len(s) |-> to_lowercase_char(s[i])]

\* str::ends_with
ends_with(s, suffix) ==
    /\ Len(suffix) <= Len(s)
    /\ SubSeq(s, Len(s) - Len(suffix) + 1, Len(s)) = suffix

Dark  == <<"d", "a", "r", "k">>
Light == <<"l", "i", "g", "h", "t">>
Est   == <<"e", "s", "t">>
Dash  == <<"-">>

\* The variant suffixes in the order extract_base_name tries them.
VariantSuffixes ==
    <<Dash \o Dark \o Est, Dash \o Light \o Est, Dash \o Dark, Dash \o Light>>

\* Theme::extract_base_name: the first suffix of the list the name ends
\* with, compared as written, is cut off.
extract_base_name(name) ==
    IF \E i \in 1..Len(VariantSuffixes) : ends_with(name, VariantSuffixes[i])
    THEN LET i == CHOOSE k \in 1..Len(VariantSuffixes) :
                      /\ ends_with(name, VariantSuffixes[k])
                      /\ \A j \in 1..(k - 1) : ~ends_with(name, VariantSuffixes[j])
         IN  SubSeq(name, 1, Len(name) - Len(VariantSuffixes[i]))
    ELSE name

\* Theme::base_name
base_name(th) == extract_base_name(th.name)

\* 10^5 times the linearised value of a channel c in 0..255, rounded down:
\* c/255/12.92 when c/255 <= 0.03928, ((c/255 + 0.055)/1.055)^2.4 otherwise.
Linear ==
    <<0, 30, 60, 91, 121, 151, 182, 212,
       242, 273, 303, 334, 367, 402, 439, 477,
       518, 560, 604, 651, 699, 749, 802, 856,
       913, 972, 1032, 1096, 1161, 1228, 1298, 1370,
       1444, 1520, 1599, 1680, 1764, 1850, 1938, 2028,
       2121, 2217, 2315, 2415, 2518, 2624, 2732, 2842,
       2955, 3071, 3189, 3310, 3433, 3560, 3688, 3820,
       3954, 4091, 4231, 4373, 4518, 4666, 4817, 4970,
       5126, 5286, 5448, 5612, 5780, 5951, 6124, 6301,
       6480, 6662, 6847, 7036, 7227, 7421, 7618, 7818,
       8021, 8228, 8437, 8650, 8865, 9084, 9305, 9530,
       9758, 9989, 10224, 10461, 10702, 10946, 11193, 11443,
       11697, 11953, 12213, 12477, 12743, 13013, 13286, 13563,
       13843, 14126, 14412, 14702, 14995, 15292, 15592, 15896,
       16202, 16513, 16826, 17144, 17464, 17788, 18116, 18447,
       18782, 19120, 19461, 19806, 20155, 20507, 20863, 21223,
       21586, 21952, 22322, 22696, 23074, 23455, 23839, 24228,
       24620, 25015, 25415, 25818, 26225, 26635, 27049, 27467,
       27889, 28314, 28744, 29177, 29613, 30054, 30498, 30946,
       31398, 31854, 32314, 32777, 33245, 33716, 34191, 34670,
       35153, 35640, 36130, 36625, 37123, 37626, 38132, 38642,
       39157, 39675, 40197, 40724, 41254, 41788, 42326, 42869,
       43415, 43965, 44520, 45078, 45641, 46207, 46778, 47353,
       47932, 48514, 49102, 49693, 50288, 50888, 51491, 52099,
       52711, 53327, 53947, 54572, 55201, 55834, 56471, 57112,
       57758, 58407, 59061, 59720, 60382, 61049, 61720, 62396,
       63075, 63759, 64447, 65140, 65837, 66538, 67244, 67954,
       68668, 69387, 70110, 70837, 71569, 72305, 73046, 73791,
       74540, 75294, 76052, 76815, 77582, 78353, 79129, 79910,
       80695, 81484, 82278, 83076, 83879, 84687, 85499, 86315,
       87136, 87962, 88792, 89626, 90466, 91309, 92158, 93011,
       93868, 94730, 95597, 96468, 97344, 98225, 99110, 100000>>

\* The resolution of calculate_luminance below: the luminance of the code
\* lies between the value of the model and that value plus LumResolution.
LumResolution == 10000
Half == 500000000

\* calculate_luminance, in units of 10^-9.
calculate_luminance(r, g, b) ==
    2126 * Linear[r + 1] + 7152 * Linear[g + 1] + 722 * Linear[b + 1]

\* is_light_color: luminance > 0.5, false for a string hex_to_rgb rejects.
is_light_color(hex) ==
    LET rgb == hex_to_rgb(hex)
    IN  rgb.tag = "Some" /\ calculate_luminance(rgb.r, rgb.g, rgb.b) > Half

\* A factor is written in hundredths.  (c + (255 - c) * factor).min(255.0)
\* as u8 in f32: for the factors 0.75, 0.15, 0.2 of generate_variant the f32
\* result truncates to the same integer as the exact one.
lighten_channel(c, pct) ==
    LET x == (c * 100 + (255 - c) * pct) \div 100
    IN  IF x > 255 THEN 255 ELSE x

\* In f32, 1.0 - 0.85 is 0.14999998, so a product c * 0.15 that is a whole
\* number in exact arithmetic comes out just below it and truncates to one
\* less; 1.0 - 0.25 is exact and c * (1.0 - 0.3) rounds to the exact product.
F32RoundsBelow(c, pct) == pct = 85 /\ c > 0 /\ (c * 15) % 100 = 0

\* (c * (1.0 - factor)).max(0.0) as u8
darken_channel(c, pct) ==
    ((c * (100 - pct)) \div 100) - (IF F32RoundsBelow(c, pct) THEN 1 ELSE 0)

lighten_color(hex, pct) ==
    LET rgb == hex_to_rgb(hex)
    IN  IF rgb.tag = "Some"
        THEN rgb_to_hex(lighten_channel(rgb.r, pct), lighten_channel(rgb.g, pct),
                        lighten_channel(rgb.b, pct))
        ELSE None

darken_color(hex, pct) ==
    LET rgb == hex_to_rgb(hex)
    IN  IF rgb.tag = "Some"
        THEN rgb_to_hex(darken_channel(rgb.r, pct), darken_channel(rgb.g, pct),
                        darken_channel(rgb.b, pct))
        ELSE None

\* Option::unwrap_or_else(|| color)
unwrap_or(opt, color) == IF opt = None THEN color ELSE opt

is_variant_any_case(v, word) == to_lowercase(v) = word

\* variant == "dark", variant == "light"
is_variant(v, word) == v = word

bg_factor_weak(is_dark) == IF is_dark THEN 85 ELSE 25

bg_factor(is_dark)    == IF is_dark THEN 85 ELSE 75
fg_factor(is_dark)    == IF is_dark THEN 15 ELSE 25
color_factor(is_dark) == IF is_dark THEN 20 ELSE 30

VariantOk(th)  == [tag |-> "Ok", theme |-> th]
VariantErr(th) == [tag |-> "Err", theme |-> th]

generate_variant(th, v) ==
    LET is_dark  == is_variant(v, Dark)
        is_light == is_variant(v, Light)
        source_is_dark == ~is_light_color(th.colors["bg"])
        new_name == base_name(th) \o Dash \o v
        new_bg == IF is_dark
                  THEN unwrap_or(darken_color(th.colors["bg"], bg_factor(is_dark)),
                                 th.colors["bg"])
                  ELSE unwrap_or(lighten_color(th.colors["bg"], bg_factor(is_dark)),
                                 th.colors["bg"])
        new_fg == IF is_dark
                  THEN unwrap_or(lighten_color(th.colors["fg"], fg_factor(is_dark)),
                                 th.colors["fg"])
                  ELSE unwrap_or(darken_color(th.colors["fg"], fg_factor(is_dark)),
                                 th.colors["fg"])
        adjust_color(color) ==
            IF is_dark
            THEN unwrap_or(lighten_color(color, color_factor(is_dark)), color)
            ELSE unwrap_or(darken_color(color, color_factor(is_dark)), color)
    IN  IF ~is_dark /\ ~is_light THEN VariantErr(th)
        ELSE IF (is_dark /\ source_is_dark) \/ (is_light /\ ~source_is_dark)
        THEN VariantOk([th EXCEPT !.variant = v, !.name = new_name])
        ELSE VariantOk(
                 [name |-> new_name,
                  description |-> th.description \o <<" ", "(">> \o v \o <<")">>,
                  variant |-> v,
                  colors |-> [c \in Range(ColorNames) |->
                                 IF c = "bg" THEN new_bg
                                 ELSE IF c = "fg" THEN new_fg
                                 ELSE IF th.colors[c] = None THEN None
                                 ELSE adjust_color(th.colors[c])],
                  properties |-> th.properties])

ChannelSamples == {0, 20, 187, 188, 255}
VariantNames ==
    {<<"n">>, <<"n">> \o Dash \o Dark, <<"n">> \o Dash \o Light,
     <<"n">> \o Dash \o Dark \o Est}
VariantArgs ==
    {Dark, Light, <<"D", "a", "r", "k">>, Dark \o Est, <<>>, Light \o <<"e", "r">>}

\* A palette that passes validate_theme, with the given bg and fg.
VariantColors(bg, fg) ==
    [c \in Range(ColorNames) |->
        CASE c = "bg" -> bg
          [] c = "fg" -> fg
          [] c = "accent" -> <<"F", "E", "8", "0", "1", "9">>
          [] c \in {"red", "green", "yellow"} -> rgb_to_hex(200, 100, 20)
          [] c \in {"blue", "magenta", "cyan"} -> rgb_to_hex(0, 120, 255)
          [] c = "orange" -> rgb_to_hex(255, 160, 10)
          [] OTHER -> None]

VariantCall(th, v, done, res) ==
    [fn |-> "generate_variant", theme |-> th, v |-> v, done |-> done, result |-> res]

InitVariant ==
    /\ files = [p \in Paths |-> NoFile]
    /\ dirs = {}
    /\ backups = [b \in BackupPaths |-> NoFile]
    /\ table = NoTable
    /\ tableOK = TRUE
    /\ now = 0
    /\ IdleBatch
    /\ incr = TRUE
    /\ batches = 0 /\ edits = 0
    /\ last = [a \in Apps |-> "none"]
    /\ prev = [theme |-> "none", apps |-> {}]
    /\ su = NoCall
    /\ NoExport
    /\ NoRestore
    /\ NoCache
    /\ \E name \in VariantNames, variant \in {None, Dark},
          r \in ChannelSamples, g \in ChannelSamples, b \in ChannelSamples,
          fg \in {White, rgb_to_hex(20, 20, 20)}, v \in VariantArgs :
          LET th == Theme(name, <<"d">>, variant, VariantColors(rgb_to_hex(r, g, b), fg),
                          NoProperties)
          IN  call = VariantCall(th, v, FALSE, VariantErr(th))
    /\ tdir = <<>>

CallGenerateVariant ==
    /\ call.fn = "generate_variant" /\ ~call.done
    /\ call' = VariantCall(call.theme, call.v, TRUE, generate_variant(call.theme, call.v))
    /\ UNCHANGED <<diskVars, batchVars, histVars, su, exportVars, rs, cacheVars, tdir>>

NextVariant == CallGenerateVariant

SpecVariant == InitVariant /\ [][NextVariant]_vars

----------------------------------------------------------------------------
(* Theme::full_name (src/src/theme.rs).                                    *)

\* Theme::detect_variant_from_name: the suffix is looked for in the
\* lower-cased name.
detect_variant_from_name(name) ==
    LET name_lower == to_lowercase(name)
    IN  IF ends_with(name_lower, Dash \o Dark) \/ ends_with(name_lower, Dash \o Dark \o Est)
        THEN Dark
        ELSE IF \/ ends_with(name_lower, Dash \o Light)
                \/ ends_with(name_lower, Dash \o Light \o Est)
        THEN Light
        ELSE None

\* Theme::get_variant: the variant field, or else the one the name shows.
get_variant(th) ==
    IF th.variant # None THEN th.variant ELSE detect_variant_from_name(th.name)

\* Theme::full_name
full_name(th) ==
    IF get_variant(th) # None
    THEN base_name(th) \o Dash \o get_variant(th)
    ELSE th.name

NameBases == {<<"n">>, <<"N">>, <<"n">> \o Dash \o Dark}
NameSuffixes ==
    {<<>>, Dash \o Dark, Dash \o Light, Dash \o Dark \o Est, Dash \o Light \o Est,
     <<"-", "D", "A", "R", "K">>, <<"-", "L", "i", "g", "h", "t">>,
     Dash \o Dark \o <<"e", "r">>, <<"_">> \o Light}

NameCall(th, done, res) ==
    [fn |-> "full_name", theme |-> th, done |-> done, result |-> res]

InitName ==
    /\ files = [p \in Paths |-> NoFile]
    /\ dirs = {}
    /\ backups = [b \in BackupPaths |-> NoFile]
    /\ table = NoTable
    /\ tableOK = TRUE
    /\ now = 0
    /\ IdleBatch
    /\ incr = TRUE
    /\ batches = 0 /\ edits = 0
    /\ last = [a \in Apps |-> "none"]
    /\ prev = [theme |-> "none", apps |-> {}]
    /\ su = NoCall
    /\ NoExport
    /\ NoRestore
    /\ NoCache
    /\ \E base \in NameBases, suffix \in NameSuffixes,
          variant \in {None, Dark, Light, <<"h", "c">>} :
          call = NameCall(Theme(base \o suffix, <<>>, variant,
                                VariantColors(White, rgb_to_hex(20, 20, 20)),
                                NoProperties),
                          FALSE, <<>>)
    /\ tdir = <<>>

CallFullName ==
    /\ call.fn = "full_name" /\ ~call.done
    /\ call' = NameCall(call.theme, TRUE, full_name(call.theme))
    /\ UNCHANGED <<diskVars, batchVars, histVars, su, exportVars, rs, cacheVars, tdir>>

NextName == CallFullName

SpecName == InitName /\ [][NextName]_vars

----------------------------------------------------------------------------
(* The dispatch of generators::generate on the format name                 *)
(* (src/src/generators/mod.rs).                                            *)

\* The arms of the match, in order: the format names ...
SupportedFormats ==
    <<<<"n", "i", "x">>,
      <<"k", "i", "t", "t", "y">>,
      <<"w", "a", "y", "b", "a", "r">>,
      <<"n", "e", "o", "v", "i", "m">>,
      <<"s", "t", "a", "r", "s", "h", "i", "p">>,
      <<"m", "a", "k", "o">>,
      <<"h", "y", "p", "r", "l", "a", "n", "d">>,
      <<"h", "y", "p", "r", "p", "a", "p", "e", "r">>,
      <<"w", "o", "f", "i">>,
      <<"w", "l", "o", "g", "o", "u", "t">>,
      <<"f", "a", "s", "t", "f", "e", "t", "c", "h">>,
      <<"y", "a", "z", "i">>,
      <<"g", "t", "k">>,
      <<"g", "t", "k", "-", "c", "s", "s">>,
      <<"b", "t", "o", "p">>,
      <<"g", "i", "t">>,
      <<"g", "i", "t", "-", "n", "i", "x">>>>

\* ... and the generator of each arm, named by its format.
Generators ==
    <<"nix", "kitty", "waybar", "neovim", "starship", "mako", "hyprland", "hyprpaper", "wofi", "wlogout", "fastfetch", "yazi", "gtk", "gtk-css", "btop", "git", "git-nix">>

\* char::to_uppercase on the characters the model uses.
to_uppercase_char(ch) ==
    IF \E i \in 1..26 : LowerLetters[i] = ch
    THEN UpperLetters[CHOOSE i \in 1..26 : LowerLetters[i] = ch]
    ELSE ch

DispatchOk(c) == [tag |-> "Ok", content |-> c, error |-> "", format |-> <<>>]
DispatchErr(e, format) == [tag |-> "Err", content |-> "", error |-> e, format |-> format]

\* The mutant of the dispatch that compares the name as given.
generate_format_exact(t, format) ==
    IF \E i \in 1..Len(SupportedFormats) : SupportedFormats[i] = format
    THEN LET app == Generators[CHOOSE i \in 1..Len(SupportedFormats) :
                                   SupportedFormats[i] = format]
         IN  IF generate(t, app) = GenError
             THEN DispatchErr("generator failed", <<>>)
             ELSE DispatchOk(generate(t, app))
    ELSE DispatchErr("Unknown format", format)

\* generators::generate(theme, format): the match on format.to_lowercase();
\* the error of the last arm quotes the name as it was given.
generate_format(t, format) ==
    LET lower == to_lowercase(format)
    IN  IF \E i \in 1..Len(SupportedFormats) : SupportedFormats[i] = lower
        THEN LET app == Generators[CHOOSE i \in 1..Len(SupportedFormats) :
                                       SupportedFormats[i] = lower]
             IN  IF generate(t, app) = GenError
                 THEN DispatchErr("generator failed", <<>>)
                 ELSE DispatchOk(generate(t, app))
        ELSE DispatchErr("Unknown format", format)

\* Every way of writing a name in upper and lower case.
RECURSIVE Recasings(_)
Recasings(s) ==
    IF s = <<>> THEN {<<>>}
    ELSE {<<ch>> \o r : ch \in {Head(s), to_uppercase_char(Head(s))},
                        r \in Recasings(Tail(s))}

UnknownFormats ==
    {<<"u", "n", "k", "n", "o", "w", "n", "-", "f", "o", "r", "m", "a", "t">>,
     <<"k", "i", "t", "t", "y", " ">>,
     <<"g", "t", "k", "_", "c", "s", "s">>,
     <<"k", "i", "t">>,
     <<"c", "s", "s">>,
     <<"a", "l", "a", "c", "r", "i", "t", "t", "y">>,
     <<>>}

FormatInputs(names) == UNION {Recasings(f) : f \in names}

FormatCall(t, format, done, res) ==
    [fn |-> "generate", theme |-> t, format |-> format, done |-> done, result |-> res]

InitFormat ==
    /\ files = [p \in Paths |-> NoFile]
    /\ dirs = {}
    /\ backups = [b \in BackupPaths |-> NoFile]
    /\ table = NoTable
    /\ tableOK = TRUE
    /\ now = 0
    /\ IdleBatch
    /\ incr = TRUE
    /\ batches = 0 /\ edits = 0
    /\ last = [a \in Apps |-> "none"]
    /\ prev = [theme |-> "none", apps |-> {}]
    /\ su = NoCall
    /\ NoExport
    /\ NoRestore
    /\ NoCache
    /\ \E t \in ThemeNames, format \in FormatInputs(Range(SupportedFormats) \cup UnknownFormats) :
          call = FormatCall(t, format, FALSE, DispatchErr("", <<>>))
    /\ tdir = <<>>

CallGenerate ==
    /\ call.fn = "generate" /\ ~call.done
    /\ call' = FormatCall(call.theme, call.format, TRUE,
                          generate_format(call.theme, call.format))
    /\ UNCHANGED <<diskVars, batchVars, histVars, su, exportVars, rs, cacheVars, tdir>>

NextFormat == CallGenerate

SpecFormat == InitFormat /\ [][NextFormat]_vars

----------------------------------------------------------------------------
(* validate_accessibility (src/src/parser.rs) over the contrast and        *)
(* similarity helpers of src/src/utils.rs.                                 *)

\* The named colours of a theme in the order find_similar_colors collects
\* them: the nine required ones, then the optional ones that are present.
all_colors(th) ==
    SelectSeq(ColorNames, LAMBDA c : th.colors[c] # None)

\* color_distance, squared: (dr^2 + dg^2 + db^2); its square root is taken
\* in f64, which keeps the order of the sums and maps 900 to 30.0 exactly.
\* -1 when hex_to_rgb rejects one of the two strings.
color_distance2(color1, color2) ==
    LET x == hex_to_rgb(color1)
        y == hex_to_rgb(color2)
    IN  IF x.tag # "Some" \/ y.tag # "Some" THEN -1
        ELSE (x.r - y.r) * (x.r - y.r) + (x.g - y.g) * (x.g - y.g)
             + (x.b - y.b) * (x.b - y.b)

\* The pairs (i, j), i < j, in the order of the two nested loops.
RECURSIVE PairsFrom(_, _, _)
PairsFrom(i, j, n) ==
    IF i >= n THEN <<>>
    ELSE IF j > n THEN PairsFrom(i + 1, i + 2, n)
    ELSE <<<<i, j>>>> \o PairsFrom(i, j + 1, n)

\* slice::sort_by on the distance: a stable sort.
RECURSIVE sort_by_distance(_)
sort_by_distance(items) ==
    IF items = <<>> THEN <<>>
    ELSE LET rest == sort_by_distance(SubSeq(items, 1, Len(items) - 1))
             x == items[Len(items)]
         IN  SelectSeq(rest, LAMBDA y : y.d2 <= x.d2) \o <<x>>
             \o SelectSeq(rest, LAMBDA y : y.d2 > x.d2)

similar_pairs(th, threshold) ==
    LET names == all_colors(th)
        pairs == PairsFrom(1, 2, Len(names))
        item(p) == [a |-> names[p[1]], b |-> names[p[2]],
                    d2 |-> color_distance2(th.colors[names[p[1]]],
                                           th.colors[names[p[2]]])]
        close(p) == LET d2 == item(p).d2
                    IN  d2 # -1 /\ d2 < threshold * threshold
        found == SelectSeq(pairs, close)
    IN  [k \in 1..Len(found) |-> item(found[k])]

\* The mutant of find_similar_colors that leaves the pairs in loop order.
find_similar_colors_unsorted(th, threshold) == similar_pairs(th, threshold)

\* find_similar_colors(theme, threshold)
find_similar_colors(th, threshold) == sort_by_distance(similar_pairs(th, threshold))

\* calculate_luminance of a colour string, in units of 10^-6.
luminance6(hex) ==
    LET rgb == hex_to_rgb(hex) IN calculate_luminance(rgb.r, rgb.g, rgb.b) \div 1000

\* calculate_contrast_ratio(color1, color2) >= tenths / 10, the ratio being
\* (lighter + 0.05) / (darker + 0.05).
contrast_at_least(color1, color2, tenths) ==
    LET l1 == luminance6(color1)
        l2 == luminance6(color2)
        lighter == IF l1 >= l2 THEN l1 ELSE l2
        darker  == IF l1 >= l2 THEN l2 ELSE l1
    IN  10 * (lighter + 50000) >= tenths * (darker + 50000)

has_contrast_ratio(color1, color2) ==
    hex_to_rgb(color1).tag = "Some" /\ hex_to_rgb(color2).tag = "Some"

\* check_contrast(color1, color2, ContrastLevel::AA)
check_contrast(color1, color2) ==
    has_contrast_ratio(color1, color2) /\ contrast_at_least(color1, color2, 45)

ContrastItem(level) == [level |-> level, a |-> "bg", b |-> "fg", d2 |-> -1]
SimilarItem(s) == [level |-> "Warning", a |-> s.a, b |-> s.b, d2 |-> s.d2]

\* A slice of a colour string panics inside hex_to_rgb: the colour is read
\* as first colour of a pair unless it is the last one, and as second colour
\* once an earlier one has parsed.
accessibility_panics(th) ==
    LET names == all_colors(th)
    IN  \E k \in 1..Len(names) :
            /\ hex_to_rgb(th.colors[names[k]]) = PanicRgb
            /\ \/ k < Len(names)
               \/ \E i \in 1..(k - 1) : hex_to_rgb(th.colors[names[i]]).tag = "Some"

validate_accessibility(th) ==
    LET bg == th.colors["bg"]
        fg == th.colors["fg"]
        contrast ==
            IF ~check_contrast(bg, fg)
            THEN IF has_contrast_ratio(bg, fg) THEN <<ContrastItem("Error")>> ELSE <<>>
            ELSE IF ~contrast_at_least(bg, fg, 70) THEN <<ContrastItem("Info")>>
            ELSE <<>>
        similar == find_similar_colors(th, 30)
    IN  IF accessibility_panics(th) THEN [tag |-> "panic", warnings |-> <<>>]
        ELSE [tag |-> "Ok",
              warnings |-> contrast \o [k \in 1..Len(similar) |-> SimilarItem(similar[k])]]

\* A palette of colours that lie far from each other.
FarColors ==
    [c \in Range(ColorNames) |->
        CASE c = "bg" -> rgb_to_hex(0, 0, 0)
          [] c = "fg" -> White
          [] c = "accent" -> rgb_to_hex(255, 0, 0)
          [] c = "red" -> rgb_to_hex(180, 0, 0)
          [] c = "green" -> rgb_to_hex(0, 255, 0)
          [] c = "yellow" -> rgb_to_hex(255, 255, 0)
          [] c = "blue" -> rgb_to_hex(0, 0, 255)
          [] c = "magenta" -> rgb_to_hex(255, 0, 255)
          [] c = "cyan" -> rgb_to_hex(0, 255, 255)
          [] OTHER -> None]

\* Colours close to black, to white and to each other, one of them written
\* in capitals without '#', one exactly at distance 30 from another (0, 18,
\* 24), and a grey of medium contrast.
NearColors ==
    { rgb_to_hex(0, 0, 0), rgb_to_hex(10, 10, 10), <<"0", "A", "0", "A", "0", "A">>,
      rgb_to_hex(17, 17, 17), rgb_to_hex(18, 17, 17), rgb_to_hex(0, 18, 24),
      rgb_to_hex(255, 255, 245), rgb_to_hex(119, 119, 119) }

AccessCall(th, done, res) ==
    [fn |-> "validate_accessibility", theme |-> th, done |-> done, result |-> res]

InitAccess ==
    /\ files = [p \in Paths |-> NoFile]
    /\ dirs = {}
    /\ backups = [b \in BackupPaths |-> NoFile]
    /\ table = NoTable
    /\ tableOK = TRUE
    /\ now = 0
    /\ IdleBatch
    /\ incr = TRUE
    /\ batches = 0 /\ edits = 0
    /\ last = [a \in Apps |-> "none"]
    /\ prev = [theme |-> "none", apps |-> {}]
    /\ su = NoCall
    /\ NoExport
    /\ NoRestore
    /\ NoCache
    /\ \E colors \in OddPalettesOf(FarColors, NearColors \cup {None}, MaxOdd) :
          call = AccessCall(Theme(<<"n">>, <<>>, None, colors, NoProperties), FALSE,
                            [tag |-> "Ok", warnings |-> <<>>])
    /\ tdir = <<>>

CallValidateAccessibility ==
    /\ call.fn = "validate_accessibility" /\ ~call.done
    /\ call' = AccessCall(call.theme, TRUE, validate_accessibility(call.theme))
    /\ UNCHANGED <<diskVars, batchVars, histVars, su, exportVars, rs, cacheVars, tdir>>

NextAccess == CallValidateAccessibility

SpecAccess == InitAccess /\ [][NextAccess]_vars

----------------------------------------------------------------------------
(* clean_backups and parse_backup_timestamp (src/src/cli.rs).  A u64 is    *)
(* the sequence of its eight bytes, least significant first, so that the   *)
(* arithmetic keeps the width of the code.                                 *)

\* n as u64, for 0 <= n < 2^31.
u64(n) ==
    <<n % 256, (n \div 256) % 256, (n \div 65536) % 256, n \div 16777216,
      0, 0, 0, 0>>

\* x * k on bytes, for a small k: the bytes of the product and, last, the
\* carry out of the top byte.
RECURSIVE MulBytes(_, _, _)
MulBytes(x, k, carry) ==
    IF x = <<>> THEN <<carry>>
    ELSE LET v == Head(x) * k + carry
         IN  <<v % 256>> \o MulBytes(Tail(x), k, v \div 256)

\* x - y on bytes: the bytes of the difference and, last, the borrow out of
\* the top byte.
RECURSIVE SubBytes(_, _, _)
SubBytes(x, y, borrow) ==
    IF x = <<>> THEN <<borrow>>
    ELSE LET v == Head(x) - Head(y) - borrow
         IN  <<(v + 256) % 256>> \o SubBytes(Tail(x), Tail(y), IF v < 0 THEN 1 ELSE 0)

\* x + y on bytes: the bytes of the sum and, last, the carry.
RECURSIVE AddBytes(_, _, _)
AddBytes(x, y, carry) ==
    IF x = <<>> THEN <<carry>>
    ELSE LET v == Head(x) + Head(y) + carry
         IN  <<v % 256>> \o AddBytes(Tail(x), Tail(y), v \div 256)

\* x < y on bytes, the most significant byte being the last.
RECURSIVE LessBytes(_, _)
LessBytes(x, y) ==
    IF x = <<>> THEN FALSE
    ELSE LET n == Len(x)
         IN  \/ x[n] < y[n]
             \/ x[n] = y[n] /\ LessBytes(SubSeq(x, 1, n - 1), SubSeq(y, 1, n - 1))

Low(x) == SubSeq(x, 1, Len(x) - 1)
Out(x) == x[Len(x)]

\* a * b and a - b of a u64: the wrapped value, and whether the exact result
\* lies outside the type.  A build with overflow checks (debug) panics then,
\* one without (release) goes on with the wrapped value.
checked_mul(a, k) == [value |-> Low(MulBytes(a, k, 0)), overflow |-> Out(MulBytes(a, k, 0)) # 0]
checked_sub(a, b) == [value |-> Low(SubBytes(a, b, 0)), overflow |-> Out(SubBytes(a, b, 0)) # 0]

\* The name of a file is the sequence of its segments between the dots; a
\* segment is a text or the decimal digits of a u64.
Text(s) == [text |-> s, num |-> u64(0)]
Num(n)  == [text |-> "<digits>", num |-> n]

NoTimestamp == [some |-> FALSE, value |-> u64(0)]

\* parse_backup_timestamp: filename.rsplitn(3, '.') gives the last segment,
\* the one before it, and the rest.
parse_backup_timestamp(filename) ==
    LET n == Len(filename)
    IN  IF n >= 3 /\ filename[n] = Text("bak") /\ filename[n - 1].text = "<digits>"
        THEN [some |-> TRUE, value |-> filename[n - 1].num]
        ELSE NoTimestamp

\* path.extension() == "bak"
has_bak_extension(filename) ==
    Len(filename) >= 2 /\ filename[Len(filename)] = Text("bak")

DefaultDays == 30

\* days.unwrap_or(30)
days_to_keep(days) == IF days.some THEN days.value ELSE u64(DefaultDays)

\* now - (days_to_keep * 24 * 60 * 60), with the overflow of any of the four
\* operations.
cutoff_time(nowSecs, days) ==
    LET m1 == checked_mul(days_to_keep(days), 24)
        m2 == checked_mul(m1.value, 60)
        m3 == checked_mul(m2.value, 60)
        d  == checked_sub(nowSecs, m3.value)
    IN  [value |-> d.value,
         overflow |-> m1.overflow \/ m2.overflow \/ m3.overflow \/ d.overflow]

\* The walk over the directory: the .bak files whose timestamp is below the
\* cutoff.
backups_to_remove(dir, cutoff) ==
    {f \in dir : /\ has_bak_extension(f)
                 /\ parse_backup_timestamp(f).some
                 /\ LessBytes(parse_backup_timestamp(f).value, cutoff)}

\* SystemTime::now() of the call: 2027-01-15 08:00:00 UTC.
NowSecs == 1800000000
SecondsPerDay == 86400

\* The retention arguments: none, small ones, the last one whose seconds
\* still lie before now (20833 days) and the next, the last one whose
\* seconds fit a u64 and the next, and u64::MAX.
DaysSamples ==
    { [some |-> FALSE, value |-> u64(0)] }
    \cup {[some |-> TRUE, value |-> v] :
            v \in {u64(0), u64(1), u64(30), u64(20833), u64(20834),
                   <<137, 114, 6, 69, 46, 194, 0, 0>>,
                   <<138, 114, 6, 69, 46, 194, 0, 0>>,
                   <<255, 255, 255, 255, 255, 255, 255, 255>>}}

\* The files of the configuration directory: backups taken a second ago,
\* exactly thirty days ago, a second before that, 400 days ago and at the
\* epoch, a .bak file without a timestamp, and a file that is no backup.
CleanFiles ==
    { <<Text("style"), Num(u64(NowSecs - 1)), Text("bak")>>,
      <<Text("style"), Num(u64(NowSecs - 30 * SecondsPerDay)), Text("bak")>>,
      <<Text("style"), Num(u64(NowSecs - 30 * SecondsPerDay - 1)), Text("bak")>>,
      <<Text("kitty"), Num(u64(NowSecs - 400 * SecondsPerDay)), Text("bak")>>,
      <<Text("kitty"), Num(u64(0)), Text("bak")>>,
      <<Text("notes"), Text("txt"), Text("bak")>>,
      <<Text("style"), Text("css")>> }

CleanCall(days, dir, build, answer, done, outcome, selected, left) ==
    [fn |-> "clean_backups", days |-> days, dir |-> dir, build |-> build,
     answer |-> answer, done |-> done, outcome |-> outcome,
     selected |-> selected, left |-> left]

InitClean ==
    /\ files = [p \in Paths |-> NoFile]
    /\ dirs = {}
    /\ backups = [b \in BackupPaths |-> NoFile]
    /\ table = NoTable
    /\ tableOK = TRUE
    /\ now = 0
    /\ IdleBatch
    /\ incr = TRUE
    /\ batches = 0 /\ edits = 0
    /\ last = [a \in Apps |-> "none"]
    /\ prev = [theme |-> "none", apps |-> {}]
    /\ su = NoCall
    /\ NoExport
    /\ NoRestore
    /\ NoCache
    /\ \E days \in DaysSamples, dir \in SUBSET CleanFiles,
          build \in {"debug", "release"}, answer \in {"y", "n"} :
          call = CleanCall(days, dir, build, answer, FALSE, "none", {}, dir)
    /\ tdir = <<>>

\* clean_backups(days, config_dir): the cutoff, the walk, the question, and
\* the removal of each selected file, which may fail for some of them.
CallCleanBackups ==
    /\ call.fn = "clean_backups" /\ ~call.done
    /\ LET cutoff == cutoff_time(u64(NowSecs), call.days)
           selected == backups_to_remove(call.dir, cutoff.value)
           finish(outcome, sel, left) ==
               call' = CleanCall(call.days, call.dir, call.build, call.answer, TRUE,
                                 outcome, sel, left)
       IN  IF cutoff.overflow /\ call.build = "debug"
           THEN finish("panic", {}, call.dir)
           ELSE IF selected = {} THEN finish("nothing found", {}, call.dir)
           ELSE IF call.answer # "y" THEN finish("cancelled", selected, call.dir)
           ELSE \E failed \in SUBSET selected :
                    finish("ok", selected, (call.dir \ selected) \cup failed)
    /\ UNCHANGED <<diskVars, batchVars, histVars, su, exportVars, rs, cacheVars, tdir>>

NextClean == CallCleanBackups

SpecClean == InitClean /\ [][NextClean]_vars

----------------------------------------------------------------------------
(* rename_theme (src/src/cli.rs) on the themes directory.                  *)

MaxRenames == 2

\* The theme names of the command line; "" names the file ".toml".
TNames == {"", "a", "b"}

\* What <name>.toml holds: nothing, text that does not parse as a theme, the
\* remains of a failed write, or a theme with its name field and its colours.
NoTomlFile  == [name |-> "<no file>", body |-> 0]
BadTomlFile == [name |-> "<bad toml>", body |-> 0]
PartialToml == [name |-> "<partial>", body |-> 0]
ThemeFile(name, body) == [name |-> name, body |-> body]

\* old_path.exists()
old_path_exists(d, old_name) == d[old_name] # NoTomlFile

new_path_exists_skipped(d, new_name) == FALSE

\* new_path.exists()
new_path_exists(d, new_name) == d[new_name] # NoTomlFile

\* parser::parse_theme_file(&old_path) succeeds.
parses(d, name) == d[name] \notin {NoTomlFile, BadTomlFile, PartialToml}

RenameCall(n, old_name, new_name, before, res) ==
    [fn |-> "rename_theme", n |-> n, old |-> old_name, new |-> new_name,
     before |-> before, result |-> res]

InitRename ==
    /\ files = [p \in Paths |-> NoFile]
    /\ dirs = {}
    /\ backups = [b \in BackupPaths |-> NoFile]
    /\ table = NoTable
    /\ tableOK = TRUE
    /\ now = 0
    /\ IdleBatch
    /\ incr = TRUE
    /\ batches = 0 /\ edits = 0
    /\ last = [a \in Apps |-> "none"]
    /\ prev = [theme |-> "none", apps |-> {}]
    /\ su = NoCall
    /\ NoExport
    /\ NoRestore
    /\ NoCache
    /\ tdir \in [TNames -> {NoTomlFile, BadTomlFile, ThemeFile("a", 1), ThemeFile("b", 2)}]
    /\ call = RenameCall(0, "", "", tdir, "none")

\* rename_theme(old_name, new_name, themes_dir): the two checks, the parse,
\* the validation of the renamed theme, the write of the new file and the
\* removal of the old one; the write and the removal may fail.
Rename(old_name, new_name) ==
    /\ call.fn = "rename_theme" /\ call.n < MaxRenames
    /\ LET finish(res) ==
               call' = RenameCall(call.n + 1, old_name, new_name, tdir, res)
           renamed == ThemeFile(new_name, tdir[old_name].body)
       IN  IF ~old_path_exists(tdir, old_name) \/ new_path_exists(tdir, new_name)
           THEN finish("err") /\ UNCHANGED tdir
           ELSE IF ~parses(tdir, old_name) \/ new_name = ""
           THEN finish("err") /\ UNCHANGED tdir
           ELSE \/ \* std::fs::write(&new_path, toml_content)? fails
                   /\ finish("err")
                   /\ \/ UNCHANGED tdir
                      \/ tdir' = [tdir EXCEPT ![new_name] = PartialToml]
                \/ \* std::fs::remove_file(&old_path)? fails
                   /\ finish("err")
                   /\ tdir' = [tdir EXCEPT ![new_name] = renamed]
                \/ /\ finish("ok")
                   /\ tdir' = [tdir EXCEPT ![new_name] = renamed,
                                           ![old_name] = NoTomlFile]
    /\ UNCHANGED <<diskVars, batchVars, histVars, su, exportVars, rs, cacheVars>>

NextRename == \E old_name \in TNames, new_name \in TNames : Rename(old_name, new_name)

SpecRename == InitRename /\ [][NextRename]_vars

----------------------------------------------------------------------------
(* backup_file (src/src/file_manager.rs) followed by                       *)
(* get_original_path_from_backup (src/src/cli.rs), on the targets of all   *)
(* the applications of standard deployment.                                *)

MaxBackupCalls == 2

\* let apps = vec![..] of detect_standard_files.
AllApps == <<"kitty", "waybar", "neovim", "starship", "mako", "hyprland", "wofi",
             "wlogout", "fastfetch", "yazi", "hyprpaper", "gtk", "btop", "git">>

\* The standard_path of detect_standard_files, as directory below the base
\* directory, file stem and extension; ext = "" is a file name without a dot
\* (Path::extension() is None).
standard_path(app, themeName) ==
    CASE app = "kitty"     -> [dir |-> "kitty", stem |-> "kitty", ext |-> "conf"]
      [] app = "waybar"    -> [dir |-> "waybar", stem |-> "style", ext |-> "css"]
      [] app = "neovim"    -> [dir |-> "nvim/colors", stem |-> themeName, ext |-> "lua"]
      [] app = "starship"  -> [dir |-> "", stem |-> "starship", ext |-> "toml"]
      [] app = "mako"      -> [dir |-> "mako", stem |-> "config", ext |-> ""]
      [] app = "hyprland"  -> [dir |-> "hypr", stem |-> "hyprland", ext |-> "conf"]
      [] app = "wofi"      -> [dir |-> "wofi", stem |-> "style", ext |-> "css"]
      [] app = "wlogout"   -> [dir |-> "wlogout", stem |-> "style", ext |-> "css"]
      [] app = "fastfetch" -> [dir |-> "fastfetch", stem |-> "config", ext |-> "jsonc"]
      [] app = "yazi"      -> [dir |-> "yazi", stem |-> "yazi", ext |-> "toml"]
      [] app = "hyprpaper" -> [dir |-> "hypr", stem |-> "hyprpaper", ext |-> "conf"]
      [] app = "gtk"       -> [dir |-> "gtk-4.0", stem |-> "settings", ext |-> "ini"]
      [] app = "btop"      -> [dir |-> "btop/themes", stem |-> themeName, ext |-> "theme"]
      [] app = "git"       -> [dir |-> "git/themes", stem |-> themeName, ext |-> "conf"]

\* The targets of a theme, one for each application.
OTargets == {standard_path(AllApps[i], "A") : i \in 1..Len(AllApps)}

\* Files another program may have put beside a target.
OSiblings == {[dir |-> "kitty", stem |-> "kitty", ext |-> "css"],
              [dir |-> "waybar", stem |-> "style", ext |-> "conf"],
              [dir |-> "mako", stem |-> "config", ext |-> "toml"]}

OBackupPaths == {BackupPath(p, 0) : p \in OTargets}

OriginCall(n, app, b, orig) ==
    [fn |-> "get_original_path_from_backup", n |-> n, app |-> app, b |-> b,
     orig |-> orig]

\* Every target exists; beside some of them lies a file of the same stem.
InitOrigin ==
    /\ files \in [OTargets \cup OSiblings -> {NoFile, Edited}]
    /\ \A p \in OTargets : files[p] = Edited
    /\ dirs = {p.dir : p \in OTargets}
    /\ backups = [b \in OBackupPaths |-> NoFile]
    /\ table = NoTable
    /\ tableOK = TRUE
    /\ now = 0
    /\ IdleBatch
    /\ incr = TRUE
    /\ batches = 0 /\ edits = 0
    /\ last = [a \in Apps |-> "none"]
    /\ prev = [theme |-> "none", apps |-> {}]
    /\ su = NoCall
    /\ NoExport
    /\ NoRestore
    /\ NoCache
    /\ call = OriginCall(0, "none", BackupPath(standard_path("kitty", "A"), 0),
                         standard_path("kitty", "A"))
    /\ tdir = <<>>

\* backup_file(p) for the target p of an application, then
\* get_original_path_from_backup on the backup it made.
BackupThenInfer(app) ==
    LET p == standard_path(app, "A")
        b == BackupPath(p, now)
    IN /\ call.n < MaxBackupCalls
       /\ Exists(files, p)
       /\ backups' = backup_file(backups, files, p, now)
       /\ call' = OriginCall(call.n + 1, app, b,
                             get_original_path_from_backup(files, b))
       /\ UNCHANGED <<files, dirs, table, tableOK, now, batchVars, histVars, su,
                      exportVars, rs, cacheVars, tdir>>

NextOrigin == \E i \in 1..Len(AllApps) : BackupThenInfer(AllApps[i])

SpecOrigin == InitOrigin /\ [][NextOrigin]_vars

----------------------------------------------------------------------------
(* IncrementalManager::clear_metadata (src/src/incremental.rs), and the    *)
(* apply that follows it.                                                  *)

MaxClears == 1

\* The mutant of the removal that leaves the entry in the table.
clear_metadata_kept(tbl, p) == tbl

\* metadata.remove(config_path) on the loaded table.
clear_metadata(tbl, p) == [q \in DOMAIN tbl \ {p} |-> tbl[q]]

\* The entries update_metadata can have left for a target: the name of a
\* theme with the hash of the content generated for it.
EntriesOf(app) ==
    {[theme |-> t, hash |-> compute_hash(generate(t, app)), last_updated |-> 0] :
        t \in {u \in ThemeNames : ~GenFails(u, app)}}

\* The tables over the targets: each target with an entry or without.
TablesOver(apps) ==
    UNION {[{StdPath(a) : a \in d} -> UNION {EntriesOf(a) : a \in apps}] : d \in SUBSET apps}

ClearCall(n, p, before, at, res) ==
    [fn |-> "clear_metadata", n |-> n, p |-> p, before |-> before, at |-> at,
     result |-> res]

\* Each target holds the content of theme A or a hand-edited file; the table
\* holds any entries, and may not parse.
InitClear ==
    /\ files \in [Paths -> {NoFile, Edited} \cup {generate("A", a) : a \in Apps}]
    /\ \A p \in NixPaths : files[p] = NoFile
    /\ \A a \in Apps : files[StdPath(a)] \in {Edited, generate("A", a)}
    /\ dirs = {p.dir : p \in StdPaths}
    /\ backups = [b \in BackupPaths |-> NoFile]
    /\ table \in {tbl \in TablesOver(Apps) :
                     \A a \in Apps : StdPath(a) \in DOMAIN tbl
                                     => tbl[StdPath(a)] \in EntriesOf(a)}
    /\ tableOK \in BOOLEAN
    /\ now = 0
    /\ IdleBatch
    /\ incr = TRUE
    /\ batches = 0 /\ edits = 0
    /\ last = [a \in Apps |-> "none"]
    /\ prev = [theme |-> "none", apps |-> {}]
    /\ su = NoCall
    /\ NoExport
    /\ NoRestore
    /\ NoCache
    /\ call = ClearCall(0, StdPath("kitty"), table, 0, "none")
    /\ tdir = <<>>

\* clear_metadata(config_path): load_metadata()?, remove, save_metadata()?.
\* A failed save leaves metadata.toml as it was, empty, or cut short.
ClearMetadata(p) ==
    /\ phase = "idle"
    /\ call.n < MaxClears
    /\ LET finish(res) == call' = ClearCall(call.n + 1, p, table, batches, res) IN
       IF ~tableOK
       THEN finish("err") /\ UNCHANGED <<table, tableOK>>
       ELSE \/ /\ finish("err")
               /\ \/ UNCHANGED <<table, tableOK>>
                  \/ table' = NoTable /\ UNCHANGED tableOK
                  \/ tableOK' = FALSE /\ UNCHANGED table
            \/ /\ finish("ok")
               /\ table' = clear_metadata(table, p)
               /\ UNCHANGED tableOK
    /\ UNCHANGED <<files, dirs, backups, now, batchVars, histVars, su, exportVars,
                   rs, cacheVars, tdir>>

\* The apply that follows the call: standard mode, outside dry-run.
ApplyAfterClear(t, only) ==
    /\ call.n > 0 /\ batches = call.at
    /\ BeginBatch(t, FALSE, "standard", only)

NextClear ==
    \/ \E p \in StdPaths : ClearMetadata(p)
    \/ \E t \in ThemeNames, only \in (SUBSET Apps) \ {{}} : ApplyAfterClear(t, only)
    \/ \E a \in Apps : Worker(a)
    \/ Report
    \/ Finish

SpecClear == InitClear /\ [][NextClear]_vars

----------------------------------------------------------------------------
(* A dry run and a real run of apply_theme in standard mode, begun on the  *)
(* same theme, configuration and disk.                                     *)

MaxPlans == 1

\* What a dry run reports: "Would write to: <path>" for every detected pair
\* whose content generates.
dry_run_reports(t, fs, ds) ==
    {<<a, StdPath(a)>> : a \in
        {b \in Apps : /\ InSeq(detect_standard_files(TRUE, fs, ds), b)
                      /\ ~generation_failed(generate(t, b))
                      /\ dry_run_returns(TRUE)}}

\* What a real run writes: every detected pair whose content generates and
\* which the freshness cache does not skip.
real_run_writes(t, fs, ds, tbl, ok, inc) ==
    {<<a, StdPath(a)>> : a \in
        {b \in Apps :
            /\ InSeq(detect_standard_files(FALSE, fs, ds), b)
            /\ ~generation_failed(generate(t, b))
            /\ ~dry_run_returns(FALSE)
            /\ ~(/\ uses_incremental("standard", inc)
                 /\ skips(should_update(tbl, ok, fs, StdPath(b), t, generate(t, b))))}}

PlanCall(n, t, dry, real) ==
    [fn |-> "apply_theme", n |-> n, theme |-> t, dry |-> dry, real |-> real]

\* Each target is missing with or without its directory, hand-edited, or
\* holds the content of theme A; the table holds any entries.
InitDry ==
    /\ files \in [Paths -> {NoFile, Edited} \cup {generate("A", a) : a \in Apps}]
    /\ \A p \in NixPaths : files[p] = NoFile
    /\ \A a \in Apps : files[StdPath(a)] \in {NoFile, Edited, generate("A", a)}
    /\ dirs \in SUBSET {p.dir : p \in StdPaths}
    /\ \A p \in StdPaths : files[p] # NoFile => p.dir \in dirs
    /\ backups = [b \in BackupPaths |-> NoFile]
    /\ table \in {tbl \in TablesOver(Apps) :
                     \A a \in Apps : StdPath(a) \in DOMAIN tbl
                                     => tbl[StdPath(a)] \in EntriesOf(a)}
    /\ tableOK \in BOOLEAN
    /\ now = 0
    /\ IdleBatch
    /\ incr \in BOOLEAN
    /\ batches = 0 /\ edits = 0
    /\ last = [a \in Apps |-> "none"]
    /\ prev = [theme |-> "none", apps |-> {}]
    /\ su = NoCall
    /\ NoExport
    /\ NoRestore
    /\ NoCache
    /\ call = PlanCall(0, "none", {}, {})
    /\ tdir = <<>>

\* apply_theme(theme) of a FileManager with dry_run set and of one without,
\* on the same disk.
PlanBoth(t) ==
    /\ call.n < MaxPlans
    /\ call' = PlanCall(call.n + 1, t,
                        dry_run_reports(t, files, dirs),
                        real_run_writes(t, files, dirs, table, tableOK, incr))
    /\ UNCHANGED <<diskVars, batchVars, histVars, su, exportVars, rs, cacheVars, tdir>>

NextDry == \E t \in ThemeNames : PlanBoth(t)

SpecDry == InitDry /\ [][NextDry]_vars

----------------------------------------------------------------------------
(* The claims about the applier, checked under Spec.                       *)

StdRun == mode = "standard" /\ ~dryRun /\ incr

BackedUp(a, c) ==
    \E b \in BackupsOf(backups, StdPath(a)) : backups[b] = c

\* C1: in standard mode with a working freshness cache, when an apply of a
\* theme to a target follows an apply of the same theme to that target that
\* wrote the file and recorded its metadata, and nothing else touched the file
\* or its table entry in between, the second apply makes no backup, writes no
\* file and leaves the table entry as it was.
C1_SecondApplyIsNoOp ==
    \A a \in Apps :
        (StdRun /\ pc[a] = "done" /\ seen[a].su # "none" /\ seen[a].last = theme)
        => /\ result[a] = "ok"
           /\ eff[a] = {"tblread"}
           /\ files[StdPath(a)] = snap.files[StdPath(a)]
           /\ \A b \in BackupPaths :
                 (b.dir = StdPath(a).dir /\ b.stem = StdPath(a).stem)
                 => backups[b] = snap.backups[b]
           /\ StdPath(a) \in DOMAIN table /\ StdPath(a) \in DOMAIN snap.table
           /\ table[StdPath(a)] = snap.table[StdPath(a)]

C1_Witness ==
    \E a \in Apps :
        /\ StdRun /\ pc[a] = "done" /\ seen[a].last = theme
        /\ seen[a].su = "false"
        /\ files[StdPath(a)] = content[a]

\* C2: when the workers of one batch have all returned, the persisted table
\* holds the entry of every worker whose update_metadata succeeded (their
\* load-mutate-save sequences did not overwrite one another).
C2_NoLostUpdate ==
    (phase = "done" /\ StdRun)
    => \A a \in Apps :
          (result[a] = "ok" /\ "tblwrite" \in eff[a])
          => /\ StdPath(a) \in DOMAIN table
             /\ table[StdPath(a)].theme = theme
             /\ table[StdPath(a)].hash = compute_hash(content[a])

\* C3: a batch that immediately follows a batch of the same theme in which
\* every application succeeded, with no external modification in between,
\* writes no target file and creates no backup.
C3_SecondBatchWritesNothing ==
    (phase = "done" /\ StdRun /\ prev.theme = theme /\ prev.apps # {}
       /\ {a \in Apps : pc[a] = "done"} = prev.apps)
    => \A a \in prev.apps : eff[a] \cap {"backup", "write"} = {}

\* C4: when the table entry of the target matches the theme and the hash of
\* the generated content but the file on disk hashes differently (it was
\* edited externally), the apply does not skip; it never overwrites the file
\* without a backup holding the edited bytes, and when it succeeds the target
\* holds the generated content.
C4_ExternalEditIsRewritten ==
    \A a \in Apps :
        (StdRun /\ pc[a] = "done" /\ seen[a].su # "none" /\ seen[a].hit
           /\ seen[a].file # NoFile
           /\ compute_hash(seen[a].file) # compute_hash(content[a]))
        => /\ seen[a].su # "false"
           /\ "write" \in eff[a] => BackedUp(a, seen[a].file)
           /\ result[a] = "ok"
              => /\ {"backup", "write"} \subseteq eff[a]
                 /\ files[StdPath(a)] = content[a]

C4_Witness ==
    \E a \in Apps :
        /\ StdRun /\ pc[a] = "done" /\ seen[a].hit
        /\ seen[a].file = Edited
        /\ result[a] = "ok"
        /\ files[StdPath(a)] = content[a]
        /\ BackedUp(a, Edited)

\* C6: in standard mode a step that changes a target file that exists is taken
\* only when a backup file in the same directory already holds exactly the
\* bytes the target has before the step.
C6_BackupBeforeOverwrite ==
    [][\A a \in Apps :
          (phase = "running" /\ mode = "standard"
             /\ Exists(files, StdPath(a))
             /\ files'[StdPath(a)] # files[StdPath(a)])
          => \E b \in BackupsOf(backups, StdPath(a)) :
                /\ b.dir = StdPath(a).dir
                /\ backups[b] = files[StdPath(a)]]_vars

C6_Witness ==
    \E a \in Apps :
        /\ phase = "running" /\ mode = "standard"
        /\ {"backup", "write"} \subseteq eff[a]
        /\ files[StdPath(a)] = content[a]
        /\ BackedUp(a, snap.files[StdPath(a)])

\* C7: the backup taken for a real write to an existing target adds exactly
\* one backup file of that target and leaves every earlier backup file as it
\* was, also when two real writes fall into the same second.  (Stated for a
\* target whose earlier backups are all complete copies.)
C7_BackupAddsOneFile ==
    [][\A a \in Apps :
          (phase = "running" /\ pc[a] = "backup" /\ pc'[a] = "write"
             /\ Exists(files, StdPath(a))
             /\ \A b \in BackupsOf(backups, StdPath(a)) : backups[b] # Partial)
          => /\ Cardinality(BackupsOf(backups', StdPath(a)))
                = Cardinality(BackupsOf(backups, StdPath(a))) + 1
             /\ \A b \in BackupsOf(backups, StdPath(a)) :
                   backups'[b] = backups[b]]_vars

\* C8: during and after a dry-run batch, in either deployment mode, every
\* target file, every directory, every backup file and the persisted table are
\* as they were when the batch began, and no worker has read or written the
\* table.
C8_DryRunTouchesNothing ==
    (phase \in {"running", "done"} /\ dryRun)
    => /\ files = snap.files
       /\ dirs = snap.dirs
       /\ backups = snap.backups
       /\ table = snap.table /\ tableOK = snap.tableOK
       /\ \A a \in Apps : eff[a] = {}

C8_Witness ==
    /\ phase = "done" /\ dryRun
    /\ \E a \in Apps : result[a] = "ok" /\ Exists(files, Target(mode, a))
    /\ DOMAIN table # {}

\* C9: when apply_theme or apply_theme_filtered returns, apply_to_file has
\* been called exactly once for every detected application and never for
\* another, each call has yielded a success or a failure, every application
\* that succeeded outside dry-run has its target holding its content whatever
\* became of the others, and the batch call returns success.
C9_EveryPairOnce ==
    phase = "done"
    => /\ \A a \in Apps :
             IF InSeq(configs, a)
             THEN attempts[a] = 1 /\ result[a] \in {"ok", "err"}
             ELSE attempts[a] = 0 /\ result[a] = "none"
       /\ \A a \in Apps :
             (result[a] = "ok" /\ ~dryRun)
             => files[Target(mode, a)] = content[a]
       /\ ret = "ok"

C9_Witness ==
    /\ phase = "done" /\ ~dryRun /\ ret = "ok"
    /\ \E a, b \in Apps :
          /\ result[a] = "err"
          /\ result[b] = "ok" /\ "write" \in eff[b]
          /\ files[Target(mode, b)] = content[b]

\* C15: when metadata.toml did not parse as the batch began, an application
\* in standard mode that has written its target has succeeded, and the table
\* parses again and holds the entry of the written path.
C15_CorruptTableIsColdCache ==
    \A a \in Apps :
        (phase \in {"running", "done"} /\ StdRun /\ ~snap.tableOK
           /\ pc[a] = "done" /\ "write" \in eff[a]
           /\ files[StdPath(a)] = content[a])
        => /\ result[a] = "ok"
           /\ tableOK
           /\ StdPath(a) \in DOMAIN table
           /\ table[StdPath(a)].theme = theme
           /\ table[StdPath(a)].hash = compute_hash(content[a])

\* C16: when should_update fails, the worker goes on to the backup step, and
\* an application that then succeeds has written its target, after a backup
\* when the target existed.
C16_FailedCheckNeverSkips ==
    [][\A a \in Apps :
          /\ (pc[a] = "check" /\ pc'[a] # "check" /\ seen'[a].su = "err")
             => pc'[a] = "backup"
          /\ (StdRun' /\ seen'[a].su = "err" /\ pc'[a] = "done"
                /\ result'[a] = "ok")
             => /\ "write" \in eff'[a]
                /\ files'[StdPath(a)] = content'[a]
                /\ seen'[a].file # NoFile => "backup" \in eff'[a]]_vars

C16_Witness ==
    \E a \in Apps :
        /\ StdRun /\ pc[a] = "done" /\ result[a] = "ok"
        /\ seen[a].su = "err" /\ seen[a].file = Binary
        /\ {"backup", "write"} \subseteq eff[a]
        /\ files[StdPath(a)] = content[a]
        /\ BackedUp(a, Binary)

C18_NixBackupBeforeOverwrite ==
    [][\A a \in Apps :
          (phase = "running" /\ mode = "nix"
             /\ Exists(files, NixPath(a))
             /\ files'[NixPath(a)] # files[NixPath(a)])
          => \E b \in BackupsIn(backups) :
                /\ b.dir = NixPath(a).dir /\ b.stem = NixPath(a).stem
                /\ backups[b] = files[NixPath(a)]]_vars

\* C20: when apply_theme returns, the outcomes have been reported in the order
\* of the detected application list, whatever the order in which the workers
\* finished.
C20_ReportInInputOrder ==
    phase = "done" => report = configs

C20_Witness ==
    /\ phase = "done"
    /\ Len(configs) = 2 /\ Len(fin) = 2
    /\ fin # configs
    /\ report = configs

----------------------------------------------------------------------------
(* The claim about should_update as a function, checked under SpecSU.      *)

SUHit ==
    /\ su.p \in DOMAIN table
    /\ table[su.p].theme = su.theme
    /\ table[su.p].hash = compute_hash(su.c)

SUSameOnDisk ==
    /\ files[su.p] # NoFile
    /\ compute_hash(files[su.p]) = compute_hash(su.c)

\* The table does not parse, or the file that must be compared cannot be read.
SUError == ~tableOK \/ (SUHit /\ files[su.p] = Binary)

\* C5: outside the error cases should_update returns false exactly when the
\* table has an entry for the path with the given theme name and the hash of
\* the given content and the file exists with that same hash; in every other
\* case (no entry, other theme, other hash, no file, other hash on disk) it
\* returns true.
C5_ShouldUpdateExact ==
    (su.result # "none" /\ ~SUError)
    => /\ su.result \in {"true", "false"}
       /\ su.result = "false" <=> (SUHit /\ SUSameOnDisk)

C5_Witness ==
    /\ su.result = "false"
    /\ SUHit /\ SUSameOnDisk

----------------------------------------------------------------------------
(* The claim about the batch export, checked under SpecExport.             *)

XDone == xcount # <<>>

----------------------------------------------------------------------------
(* The claims about the theme cache, checked under SpecCache and, for      *)
(* termination, under SpecCacheFair.                                       *)

\* C11: a call of get_or_parse that succeeds returns the cached theme only
\* when the entry's stored modification time equals the one it read from the
\* file, which is the file's current one when the file did not change during
\* the call; a successful call that did not return the cached theme returns
\* the theme parsed from the file's current content.
C11_CachedOnlyIfFresh ==
    \A t \in CThreads :
        (cpc[t] = "done" /\ cret[t] \notin CErrors)
        => /\ chit[t] => (cent[t].m = cmt[t] /\ cret[t] = cent[t].theme)
           /\ ~cchg[t]
              => IF chit[t]
                 THEN cent[t].m = cfile[cpath[t]].m
                 ELSE cret[t] = parse_theme_file(cfile[cpath[t]])

C11_Witness ==
    \E t \in CThreads :
        /\ cpc[t] = "done" /\ chit[t] /\ ~cchg[t]
        /\ cent[t].m = cfile[cpath[t]].m
        /\ cfile[cpath[t]].m > 0
        /\ cret[t] = parse_theme_file(cfile[cpath[t]])

\* C12: a call of get_or_parse that has found the entry of its path stale
\* goes on to return.
C12_StaleCallTerminates ==
    \A t \in CThreads : (cpc[t] = "remove") ~> (cpc[t] = "done")

\* C13: a step of a call changes the entry of no path but its own; and
\* while a file has not changed since the first call on its path began, once
\* every call in progress on the path has returned a theme they all returned
\* the theme parsed from the file and the entry of the path is (that theme,
\* the file's modification time).
C13_SamePathCallsConverge ==
    [][/\ \A q \in CPaths :
             cache'[q] # cache[q]
             => \E t \in CThreads : cpc'[t] # cpc[t] /\ cpath[t] = q
       /\ \A p \in CPaths :
             LET callers == {t \in CThreads : cpath'[t] = p}
             IN (/\ callers # {}
                 /\ cgen'[p] = "called"
                 /\ \A t \in callers :
                       cpc'[t] = "done" /\ cret'[t] \notin CErrors)
                => /\ \A t \in callers :
                         cret'[t] = parse_theme_file(cfile'[p])
                   /\ cache'[p] = [theme |-> parse_theme_file(cfile'[p]),
                                   m |-> cfile'[p].m]]_vars

C13_Witness ==
    \E t, u \in CThreads, q \in CPaths :
        /\ t # u /\ cpath[t] = cpath[u] /\ q # cpath[t]
        /\ cpc[t] = "done" /\ cpc[u] = "done"
        /\ ~chit[t] /\ ~chit[u] /\ cgen[cpath[t]] = "called"
        /\ cret[t] = cret[u] /\ cret[t] \notin CErrors
        /\ cache[cpath[t]].theme = cret[t]
        /\ cache[q] # NoEntry

\* C14: the step on which a call of get_or_parse fails leaves the whole map
\* as it was, and no entry of the map ever holds a failure.
C14_FailureInsertsNothing ==
    [][/\ \A t \in CThreads :
             (cret'[t] \in CErrors /\ cret[t] \notin CErrors) => cache' = cache
       /\ \A p \in CPaths : cache'[p].theme \notin CErrors]_vars

C14_Witness ==
    \E t \in CThreads, q \in CPaths :
        /\ cpc[t] = "done" /\ cret[t] \in {ReadError, TomlError, ValidationError}
        /\ cache[cpath[t]] = NoEntry
        /\ q # cpath[t] /\ cache[q] # NoEntry

----------------------------------------------------------------------------
(* The claim about restore_backup, checked under SpecRestore.              *)

\* C19: after a confirmed restore that succeeded, the inferred original path
\* holds the content the chosen backup had when restore was invoked, and when
\* the original path held a file, some backup file of it holds the content it
\* had immediately before the restore.
C19_RestoreIsUndoable ==
    rs.result = "ok"
    => /\ files[rs.orig] = rs.had
       /\ rs.was # NoFile
          => \E b \in BackupsOf(backups, rs.orig) : backups[b] = rs.was

----------------------------------------------------------------------------
(* The claims about the colour helpers, checked under SpecHex.             *)

\* C21: for every well-formed colour string c (six hexadecimal digits in
\* either letter case, with or without one leading '#'), rgb_to_hex of the
\* channels of hex_to_rgb(c) equals normalize_hex(c).
C21_RoundTripIsNormalize ==
    (call.fn = "hex_to_rgb" /\ call.done /\ validate_hex_color(call.arg))
        => /\ call.rgb.tag = "Some"
           /\ call.back = normalize_hex(call.arg)

\* C22: hex_to_rgb returns a value exactly for the strings validate_hex_color
\* accepts (one optional '#', then exactly six hexadecimal digits) and
\* returns no value for every other string.
C22_HexToRgbExact ==
    (call.fn = "hex_to_rgb" /\ call.done)
        => call.rgb.tag = (IF validate_hex_color(call.arg) THEN "Some" ELSE "None")

----------------------------------------------------------------------------
(* The claim about validate_theme, checked under SpecValidate.             *)

\* C23: validate_theme fails if and only if the name is empty, or one of the
\* nine required colours does not match ^#?[0-9A-Fa-f]{6}$, or one of the
\* six optional colours is present and does not match it; absent optional
\* colours and the properties never make it fail.
C23_ValidateThemeExact ==
    (call.fn = "validate_theme" /\ call.done)
        => (~call.result.ok <=>
               \/ call.theme.name = <<>>
               \/ \E c \in Range(RequiredColors) :
                      ~validate_hex_color(call.theme.colors[c])
               \/ \E c \in Range(OptionalColors) :
                      /\ call.theme.colors[c] # None
                      /\ ~validate_hex_color(call.theme.colors[c]))

\* A theme with a name and nine well-formed required colours is rejected for
\* a malformed optional colour, beside an absent one and some properties.
C23_Witness ==
    /\ call.fn = "validate_theme" /\ call.done
    /\ ~call.result.ok
    /\ call.theme.name # <<>>
    /\ \A c \in Range(RequiredColors) : validate_hex_color(call.theme.colors[c])
    /\ \E c \in Range(OptionalColors) : call.theme.colors[c] = None
    /\ call.theme.properties = SomeProperties

----------------------------------------------------------------------------
(* The claims about generate_variant, checked under SpecVariant.           *)

Luminance(hex) ==
    LET rgb == hex_to_rgb(hex) IN calculate_luminance(rgb.r, rgb.g, rgb.b)

\* C24: for a valid theme with a dark background (luminance below 0.5),
\* generate_variant(theme, "light") returns a theme whose background has a
\* luminance of at least 0.5; for one with a light background,
\* generate_variant(theme, "dark") returns a theme whose background is not
\* light.
C24_VariantFlipsLightness ==
    (call.fn = "generate_variant" /\ call.done /\ validate_theme(call.theme).ok)
        => /\ (call.v = Light /\ Luminance(call.theme.colors["bg"]) < Half)
                => /\ call.result.tag = "Ok"
                   /\ Luminance(call.result.theme.colors["bg"]) >= Half
           /\ (call.v = Dark
               /\ Luminance(call.theme.colors["bg"]) + LumResolution >= Half)
                => /\ call.result.tag = "Ok"
                   /\ Luminance(call.result.theme.colors["bg"]) + LumResolution < Half

\* A dark, saturated background has been turned into a light one.
C24_Witness ==
    /\ call.fn = "generate_variant" /\ call.done
    /\ call.v = Light
    /\ call.theme.colors["bg"] = rgb_to_hex(0, 0, 255)
    /\ call.result.tag = "Ok"
    /\ call.result.theme.colors["bg"] # call.theme.colors["bg"]
    /\ Luminance(call.result.theme.colors["bg"]) >= Half

\* C25: generate_variant(theme, v) succeeds if and only if v is exactly
\* "dark" or "light"; on success the variant field of the result is v and
\* its name is base_name(theme.name), "-" and v, whether the colours were
\* transformed or the source already had the requested lightness.
C25_VariantNameAndField ==
    (call.fn = "generate_variant" /\ call.done)
        => /\ call.result.tag = "Ok" <=> call.v \in {Dark, Light}
           /\ call.result.tag = "Ok"
                => /\ call.result.theme.variant = call.v
                   /\ call.result.theme.name =
                          extract_base_name(call.theme.name) \o Dash \o call.v

\* The source already had the requested lightness and its name carried a
\* suffix: the copy is renamed.
C25_Witness ==
    /\ call.fn = "generate_variant" /\ call.done
    /\ call.result.tag = "Ok"
    /\ call.result.theme.colors = call.theme.colors
    /\ call.theme.name = <<"n">> \o Dash \o Dark \o Est
    /\ call.result.theme.name = <<"n">> \o Dash \o Dark

----------------------------------------------------------------------------
(* The claim about full_name, checked under SpecName.                      *)

\* C30: for a theme whose variant field is absent and whose name ends, in
\* any letter case, in -dark, -light, -darkest or -lightest, full_name() is
\* the name unchanged.
C30_FullNameKeepsSuffixedName ==
    (/\ call.fn = "full_name" /\ call.done
     /\ call.theme.variant = None
     /\ \E i \in 1..Len(VariantSuffixes) :
            ends_with(to_lowercase(call.theme.name), VariantSuffixes[i]))
        => call.result = call.theme.name

----------------------------------------------------------------------------
(* The claim about the dispatch of generate, checked under SpecFormat.     *)

\* C28: generate(theme, format) dispatches case-insensitively: a supported
\* format name written in any letter case gives the result its lower-case
\* spelling gives, and a name outside the supported set fails with an
\* "Unknown format" error and produces no content.
C28_DispatchIgnoresCase ==
    (call.fn = "generate" /\ call.done)
        => IF to_lowercase(call.format) \in Range(SupportedFormats)
           THEN call.result = generate_format(call.theme, to_lowercase(call.format))
           ELSE /\ call.result.tag = "Err"
                /\ call.result.error = "Unknown format"
                /\ call.result.content = ""

\* A supported name written with capitals has produced content.
C28_Witness ==
    /\ call.fn = "generate" /\ call.done
    /\ call.format # to_lowercase(call.format)
    /\ to_lowercase(call.format) = <<"g", "t", "k", "-", "c", "s", "s">>
    /\ call.result.tag = "Ok"

----------------------------------------------------------------------------
(* The claim about validate_accessibility, checked under SpecAccess.       *)

WarningsAt(level) ==
    {k \in 1..Len(call.result.warnings) : call.result.warnings[k].level = level}

\* C27: validate_accessibility emits exactly one Warning item for each
\* unordered pair of distinct named colours (the nine required ones and the
\* optional ones that are present) whose Euclidean RGB distance is below
\* 30.0 and none for any other pair; these items are in ascending order of
\* distance and come after any bg/fg contrast item; the function never fails.
C27_SimilarPairsOnceInOrder ==
    (call.fn = "validate_accessibility" /\ call.done)
        => LET w == call.result.warnings
               present == {c \in Range(ColorNames) : call.theme.colors[c] # None}
               of(a, b) == {k \in WarningsAt("Warning") : {w[k].a, w[k].b} = {a, b}}
           IN  /\ call.result.tag = "Ok"
               /\ \A a \in present : \A b \in present \ {a} :
                      Cardinality(of(a, b)) =
                          (IF color_distance2(call.theme.colors[a],
                                              call.theme.colors[b]) < 900
                           THEN 1 ELSE 0)
               /\ \A k \in WarningsAt("Warning") :
                      /\ w[k].a \in present /\ w[k].b \in present \ {w[k].a}
                      /\ \A j \in WarningsAt("Warning") :
                             j < k => w[j].d2 <= w[k].d2
                      /\ \A j \in WarningsAt("Error") \cup WarningsAt("Info") : j < k

\* A contrast item is followed by similarity warnings of different distances,
\* the pair found first in the loops being the more distant one.
C27_Witness ==
    /\ call.fn = "validate_accessibility" /\ call.done
    /\ Len(call.result.warnings) >= 3
    /\ call.result.warnings[1].level = "Error"
    /\ call.result.warnings[2].level = "Warning"
    /\ call.result.warnings[3].level = "Warning"
    /\ call.result.warnings[2].d2 < call.result.warnings[3].d2
    /\ call.result.warnings[3].a = "bg"
    /\ call.result.warnings[2].a # "bg"

----------------------------------------------------------------------------
(* The claim about clean_backups, checked under SpecClean.                 *)

\* x as a number of twelve bytes, wide enough for days * 86400 + timestamp.
Wide(x) == x \o <<0, 0, 0, 0>>

\* timestamp < now - days * 86400 over the integers, written without the
\* subtraction: timestamp + days * 86400 < now.
OlderThan(timestamp, days) ==
    LessBytes(Low(AddBytes(Wide(timestamp),
                           Low(MulBytes(Wide(days), SecondsPerDay, 0)), 0)),
              Wide(u64(NowSecs)))

\* C26: clean_backups with a retention of d days selects for deletion exactly
\* the backup files whose timestamp is strictly less than now - d * 86400,
\* for every u64 d, with d = 30 when none is given; a backup inside the
\* retention window is never selected and never deleted.
C26_SelectsExactlyTheOld ==
    (call.fn = "clean_backups" /\ call.done)
        => LET old == {f \in call.dir :
                          /\ has_bak_extension(f)
                          /\ parse_backup_timestamp(f).some
                          /\ OlderThan(parse_backup_timestamp(f).value,
                                       IF call.days.some THEN call.days.value
                                       ELSE u64(30))}
           IN  /\ call.outcome # "panic"
               /\ call.selected = old
               /\ call.dir \ call.left \subseteq old

----------------------------------------------------------------------------
(* The claim about rename_theme, checked under SpecRename.                 *)

\* C29: rename_theme(old, new) fails without creating, modifying or deleting
\* any file when the old theme file is missing or a theme file named new
\* exists already; on success the new file exists and holds the theme with
\* its name field set to new, and the old file exists no longer.
C29_RenameChecksFirst ==
    (call.fn = "rename_theme" /\ call.n > 0)
        => /\ (call.before[call.old] = NoTomlFile \/ call.before[call.new] # NoTomlFile)
                => (call.result = "err" /\ tdir = call.before)
           /\ call.result = "ok"
                => /\ tdir[call.new] = [call.before[call.old] EXCEPT !.name = call.new]
                   /\ tdir[call.old] = NoTomlFile
                   /\ \A n \in TNames \ {call.old, call.new} : tdir[n] = call.before[n]

\* A theme file whose name field differed from its file name has been
\* renamed beside another theme file.
C29_Witness ==
    /\ call.fn = "rename_theme" /\ call.n > 0
    /\ call.result = "ok"
    /\ call.before[call.old].name \notin {call.old, call.new}
    /\ tdir[call.new].name = call.new
    /\ \E n \in TNames \ {call.old, call.new} : tdir[n] # NoTomlFile

----------------------------------------------------------------------------
(* The claims about one apply and the freshness table, checked under Spec. *)

\* C31: the step on which a standard-mode apply outside dry-run returns
\* success, whether it wrote the target or skipped it, leaves the target
\* holding the content generated for the theme, whatever applies, external
\* edits and lost or stale table entries came before.
C31_SuccessMeansGenerated ==
    [][\A a \in Apps :
          (phase = "running" /\ mode = "standard" /\ ~dryRun
             /\ result[a] = "none" /\ result'[a] = "ok")
          => files'[StdPath(a)] = generate(theme, a)]_vars

\* In one batch an application has skipped its up-to-date target, and another
\* has rewritten a target that was edited behind a matching table entry.
C31_Witness ==
    \E a \in Apps, b \in Apps :
        /\ StdRun /\ edits > 0
        /\ result[a] = "ok" /\ seen[a].su = "false"
        /\ files[StdPath(a)] = generate(theme, a)
        /\ result[b] = "ok" /\ seen[b].hit /\ seen[b].file = Edited
        /\ "write" \in eff[b]
        /\ files[StdPath(b)] = generate(theme, b)

----------------------------------------------------------------------------
(* The claim about the name of a backup, checked under SpecOrigin.         *)

\* C34: for the target of each of the 14 applications of standard
\* deployment, when it exists, the original path inferred from the backup
\* backup_file made of it is the target itself.
C34_BackupNamesItsOrigin ==
    call.n > 0 => call.orig = standard_path(call.app, "A")

\* C32: a standard-mode apply whose generation has failed has made no backup,
\* written neither its target nor the table, and its target is as it was when
\* the batch began; and the step on which an apply fails at the generation,
\* the backup, the creation of the parent directory or the write leaves the
\* persisted table as it was, the apply having written no table; when that
\* step is the backup, the target is still as it was when the batch began.
C32_FailureLeavesTable ==
    [][\A a \in Apps :
          /\ (mode' = "standard" /\ content'[a] = GenError)
             => /\ eff'[a] \cap {"backup", "write", "tblwrite"} = {}
                /\ files'[StdPath(a)] = snap'.files[StdPath(a)]
          /\ (phase = "running" /\ mode = "standard"
                /\ result[a] = "none" /\ result'[a] = "err"
                /\ pc[a] \in {"start", "backup", "write"})
             => /\ table' = table /\ tableOK' = tableOK
                /\ "tblwrite" \notin eff'[a]
                /\ pc[a] = "backup"
                   => /\ "write" \notin eff'[a]
                      /\ files'[StdPath(a)] = snap.files[StdPath(a)]]_vars

\* With entries in the table, the generation of one application has failed
\* and the write of another has failed after the backup and the truncation.
C32_Witness ==
    \E a \in Apps, b \in Apps :
        /\ mode = "standard" /\ ~dryRun /\ incr
        /\ content[a] = GenError /\ result[a] = "err"
        /\ files[StdPath(a)] = snap.files[StdPath(a)]
        /\ result[b] = "err" /\ "backup" \in eff[b]
        /\ files[StdPath(b)] = Partial
        /\ DOMAIN table # {} /\ table = snap.table

\* C33: a nix-mode apply never reads or writes the freshness table, so the
\* table is as it was when the batch began; and outside dry-run every apply
\* that succeeds has written the generated module, also over a file that held
\* the same content already.
C33_NixIgnoresTable ==
    (phase \in {"running", "done"} /\ mode = "nix")
    => /\ table = snap.table /\ tableOK = snap.tableOK
       /\ \A a \in Apps :
             /\ eff[a] \cap {"tblread", "tblwrite"} = {}
             /\ (~dryRun /\ result[a] = "ok")
                => /\ "write" \in eff[a]
                   /\ files[NixPath(a)] = generate_home_manager_module(theme, a)

\* With the freshness cache at hand, a module has been written over a file
\* that held the same content.
C33_Witness ==
    \E a \in Apps :
        /\ mode = "nix" /\ ~dryRun /\ incr
        /\ result[a] = "ok" /\ "write" \in eff[a]
        /\ snap.files[NixPath(a)] = generate_home_manager_module(theme, a)
        /\ files[NixPath(a)] = snap.files[NixPath(a)]

----------------------------------------------------------------------------
(* The claim about clear_metadata, checked under SpecClear.                *)

\* What should_update may be asked about a target: the generated contents,
\* a hand-edited file, and what the target holds.
AnyContent(p) ==
    ({generate(t, a) : t \in ThemeNames, a \in Apps} \ {GenError})
        \cup {Edited} \cup ({files[p]} \ {NoFile, Binary, Partial})

\* C35: after a clear_metadata(p) that succeeded the table holds the entries
\* it held before except that of p, each as it was; until an apply begins,
\* should_update(p, ..) returns true for every theme and content; and in the
\* standard-mode apply that follows, the worker of p does not skip: when it
\* succeeds it has written its target.
C35_ClearForcesWrite ==
    (call.fn = "clear_metadata" /\ call.n > 0 /\ call.result = "ok")
    => /\ (phase = "idle" /\ batches = call.at)
          => /\ tableOK
             /\ DOMAIN table = DOMAIN call.before \ {call.p}
             /\ \A q \in DOMAIN table : table[q] = call.before[q]
             /\ \A t \in ThemeNames, c \in AnyContent(call.p) :
                   should_update(table, tableOK, files, call.p, t, c) = "true"
       /\ \A a \in Apps :
             (phase \in {"running", "done"} /\ StdPath(a) = call.p)
             => /\ seen[a].su \in {"none", "true"}
                /\ result[a] = "ok"
                   => /\ "write" \in eff[a]
                      /\ files[StdPath(a)] = content[a]

\* The entry of a target that held its theme's content was cleared, the
\* entry of the other target stayed, and the apply of the same theme that
\* would have skipped the target has written it.
C35_Witness ==
    \E a \in Apps, b \in Apps :
        /\ call.fn = "clear_metadata" /\ call.result = "ok"
        /\ StdPath(a) = call.p /\ a # b
        /\ phase = "done" /\ result[a] = "ok" /\ "write" \in eff[a]
        /\ snap.files[StdPath(a)] = content[a]
        /\ call.p \in DOMAIN call.before
        /\ call.before[call.p].theme = theme
        /\ call.before[call.p].hash = compute_hash(content[a])
        /\ StdPath(b) \in DOMAIN snap.table
        /\ snap.table[StdPath(b)] = call.before[StdPath(b)]

----------------------------------------------------------------------------
(* The claim about the dry run, checked under SpecDry.                     *)

\* C36: for the same theme, configuration and disk, the (application, target
\* path) pairs a dry run in standard mode reports are the pairs a run outside
\* dry-run writes.
C36_DryRunReportsTheWrites ==
    call.n > 0 => call.dry = call.real

====
